---- MODULE Spec2Model ----
(***************************************************************************)
(* Model of the ai-email-engine backend.                                   *)
(*                                                                         *)
(*  SpecSync  : the IMAP sync engine (services/imap_sync.py) driven by its *)
(*              callers: the periodic task (main.py) and the sync API      *)
(*              (api/sync.py).  One step of a task is the code between two *)
(*              awaits; the database and the mail server are shared.  The  *)
(*              mail connection is used by sync_folder calls, connect and  *)
(*              disconnect only.                                           *)
(*  SpecLinks : the pipeline status of extracted links (processor.py,      *)
(*              pipeline_adapter.py, content_bridge.py,                    *)
(*              api/classifications.py).                                   *)
(***************************************************************************)
EXTENDS Integers, Sequences, FiniteSets, TLC

\* ------------------------------------------------------------------ bounds
\* Number of messages the mail server holds, all folders together.
MaxMail == 2

\* Number of rows of extracted_links.
MaxLinks == 2

\* Number of stored messages the proposal generators look at.
MaxMsgs == 5

\* Number of rows of cleanup_proposals.
MaxProposals == 1

\* Number of times one proposal is reviewed.
MaxReviews == 2
\* Number of messages the processor meets.
MaxStored == 3
\* Number of messages of one sender.
MaxSenderEmails == 4

\* ------------------------------------------------------------- input sets
Folders == {"INBOX", "Archive"}
\* settings.sync_folder_list, configured with both folders
SyncFolderList == <<"INBOX", "Archive">>
\* The Message-ID header of the message a folder holds under a UID; NoHeader:
\* it carries none.  The first message of Archive is a copy of the first of
\* INBOX; every other message is a different one, and the second of each
\* folder has no Message-ID header.
NoHeader == "none"
HeaderOf(f, u) ==
    CASE u = 1 -> "a"
      [] f = "INBOX" /\ u = 2 -> "b"
      [] f = "Archive" /\ u = 2 -> NoHeader
      [] f = "INBOX" -> NoHeader
      [] OTHER -> "c"
\* limit argument of sync_folder; 0 stands for None
LimitChoices == {0, 1}
Tasks == {"periodic", "api"}
\* relevance scores, in tenths
Scores == {2, 5, 8}
\* min_relevance arguments, in tenths
MinRelChoices == {3, 5}
\* URLs found in messages
Urls == {"https://arxiv.org/abs/2401.00001", "https://click.example.com/t/1",
         "https://youtube.com/watch?v=abc"}
StatusNames == {"pending", "queued", "extracted", "skipped"}

VARIABLES
    mailbox,     \* mail server: folder -> sequence of Message-ID headers, index = UID
    client,      \* self._client: "none" (no usable session), "auth", or the selected folder
    connected,   \* self._connected
    syncing,     \* self._syncing
    sync_state,  \* table sync_state: folder -> row or NoRow
    emails,      \* table emails: set of rows
    task,        \* per task: position and locals of its sync_folder call
    stable,      \* history: folder -> a sync_folder call returned and no mail arrived since
    links,       \* table extracted_links: sequence of rows, index = id
    run,         \* position and locals of the run_extraction_pipeline call
    gateway,     \* extraction gateway: ids of the links posted to it, and accepted by it
    msgs,        \* stored messages, by kind: how many of each
    senders,     \* table sender_profiles: the kinds of sender that have a row
    proposals,   \* table cleanup_proposals: sequence of rows, index = id
    items,       \* table proposal_items: set of rows
    approving,   \* an approve_proposal call between its read and its commit: the id, or 0
    counted,     \* generate_archive_proposals between its two queries: the count, or -1
    reply,       \* what the last proposal operation returned
    model_call,  \* the last classify_email or score_links call: its inputs and what it gave back
    stored,      \* messages the processor can see: id -> "absent", "plain" or "long_domain"
    tables,      \* committed rows the processor wrote, per message: cls, links, sender
    batch,       \* position, locals and session of the process_unclassified call
    profile,     \* the sender_profiles row of one sender, and the scores of its messages
    extraction,  \* the last call of extract_links: its bodies and the list it returned
    lifespan,    \* the application: "up", "stopping" (shutdown awaits the task), "down"
    sender_seen  \* first_seen and last_seen of the sender_profiles row of the sender

syncVars == <<mailbox, client, connected, syncing, sync_state, emails, task, stable>>
linkVars == <<links, run, gateway>>
propVars == <<msgs, senders, proposals, items, approving, counted, reply>>
procVars == <<stored, tables, batch, profile, extraction, lifespan, sender_seen>>
vars == <<mailbox, client, connected, syncing, sync_state, emails, task, stable,
          links, run, gateway, msgs, senders, proposals, items, approving,
          counted, reply, model_call, stored, tables, batch, profile, extraction,
          lifespan, sender_seen>>

\* ----------------------------------------------------------------- helpers
RECURSIVE Perms(_)
Perms(S) ==
    IF S = {} THEN {<<>>}
    ELSE UNION {{<<x>> \o p : p \in Perms(S \ {x})} : x \in S}

Range(s) == {s[i] : i \in 1..Len(s)}

Max(a, b) == IF a >= b THEN a ELSE b

\* ------------------------------------------------------------- sync engine
NoRow == [last_uid |-> -1, last_sync |-> -1, total_synced |-> -1]
\* SyncState(folder=folder, last_uid=0, total_synced=0); last_sync NULL is 0
NewRow == [last_uid |-> 0, last_sync |-> 0, total_synced |-> 0]

\* What a reader of the cursor sees: an absent row reads as a fresh one.
CursorOf(f) == IF sync_state[f] = NoRow THEN NewRow ELSE sync_state[f]

NoRes == [new_emails |-> 0, errors |-> 0, skipped |-> 0, error |-> "", message |-> ""]

IdleTask ==
    [pc |-> "idle", folder |-> "-", limit |-> 0, idx |-> 0, last_uid |-> 0,
     uids |-> <<>>, max_uid |-> 0, res |-> NoRes,
     failed |-> {}, last |-> "-", pre |-> NewRow, preCount |-> 0, resync |-> FALSE]

SyncPcs == {"select", "state", "search", "item", "update"}
InCall(t) == task[t].pc \in SyncPcs
NoRet == \A t \in Tasks : task[t].pc # "ret"

\* parse_raw_email: the Message-ID header, or the fallback built from the UID
ParseMessageId(h, u) == IF h = NoHeader THEN <<"no-id-uid", u>> ELSE <<h, 0>>

StoredIds == {r.message_id : r \in emails}

\* `if self._syncing:`
InFlightCheckOff(busy) == FALSE
InFlightCheck(busy) == busy

\* sync_folder up to its first await: the two guards, then the flag is taken.
EnterRec(conn, busy, f, lim, i) ==
    LET base == [IdleTask EXCEPT !.folder = f, !.limit = lim, !.idx = i,
                                 !.pre = CursorOf(f), !.preCount = Cardinality(emails),
                                 !.resync = stable[f]]
    IN  IF ~conn
        THEN [base EXCEPT !.pc = "ret", !.res.error = "Not connected"]
        ELSE IF InFlightCheck(busy)
        THEN [base EXCEPT !.pc = "ret", !.res.error = "Sync already in progress"]
        ELSE [base EXCEPT !.pc = "select"]

EnterFlag(conn, busy) == IF conn /\ ~InFlightCheck(busy) THEN TRUE ELSE busy

\* A call that returned from inside the try block: `finally: self._syncing = False`
FinishRec(t, rec) ==
    /\ task' = [task EXCEPT ![t] = [rec EXCEPT !.pc = "ret", !.limit = 0,
                                                !.last_uid = 0, !.max_uid = 0]]
    /\ syncing' = FALSE
    /\ stable' = [stable EXCEPT ![rec.folder] = TRUE]

Finish(t, err, msg) ==
    FinishRec(t, [task[t] EXCEPT !.res.error = err, !.res.message = msg])

\* `select_response = await self._client.select(folder)`
Select(t, outcome) ==
    /\ NoRet
    /\ task[t].pc = "select"
    /\ CASE outcome = "ok" ->
              /\ client # "none"
              /\ client' = task[t].folder
              /\ task' = [task EXCEPT ![t].pc = "state"]
              /\ UNCHANGED <<syncing, stable>>
         [] outcome = "no" ->
              /\ Finish(t, "Failed to select folder", "")
              /\ UNCHANGED client
         [] OTHER ->
              /\ Finish(t, "exception:select", "")
              /\ UNCHANGED client
    /\ UNCHANGED <<mailbox, connected, sync_state, emails, linkVars, propVars, model_call, procVars>>

\* `last_uid = sync_state.last_uid`
ReadLastUidZero(row) == 0
ReadLastUid(row) == row.last_uid

\* `sync_state = await self._get_or_create_sync_state(db, folder)`
ReadState(t, ok) ==
    /\ NoRet
    /\ task[t].pc = "state"
    /\ IF ok
       THEN LET f == task[t].folder
                row == IF sync_state[f] = NoRow THEN NewRow ELSE sync_state[f]
            IN  /\ sync_state' = [sync_state EXCEPT ![f] = row]
                /\ task' = [task EXCEPT ![t].pc = "search",
                                        ![t].last_uid = ReadLastUid(row)]
                /\ UNCHANGED <<syncing, stable>>
       ELSE /\ Finish(t, "exception:state", "")
            /\ UNCHANGED sync_state
    /\ UNCHANGED <<mailbox, client, connected, emails, linkVars, propVars, model_call, procVars>>

\* The server's answer to UID SEARCH in its selected folder s: ALL, or the
\* range last+1:* which always holds the highest UID of a non-empty folder.
SearchMatches(s, last) ==
    LET n == Len(mailbox[s])
    IN  IF last > 0
        THEN {u \in 1..n : u >= last + 1} \cup (IF n > 0 THEN {n} ELSE {})
        ELSE 1..n

\* `uids = [u for u in uids if u > last_uid]`
KeepNew(uids, last) == SelectSeq(uids, LAMBDA u : u > last)

\* `if limit and len(uids) > limit: uids = uids[:limit]`
ApplyLimit(uids, lim) ==
    IF lim # 0 /\ Len(uids) > lim THEN SubSeq(uids, 1, lim) ELSE uids

\* a search that did not answer OK: `result["error"] = f"Search failed: ..."`
SearchNotOkAsEmpty(t) == Finish(t, "", "Up to date")
SearchNotOk(t) == Finish(t, "Search failed", "")

\* `search_response = await self._client.uid_search(search_criteria)`
Search(t, outcome) ==
    /\ NoRet
    /\ task[t].pc = "search"
    /\ CASE outcome = "ok" ->
              /\ client \in Folders
              /\ \E order \in Perms(SearchMatches(client, task[t].last_uid)) :
                   LET uids == ApplyLimit(KeepNew(order, task[t].last_uid), task[t].limit)
                   IN  IF uids = <<>>
                       THEN Finish(t, "", "Up to date")
                       ELSE /\ task' = [task EXCEPT ![t].pc = "item",
                                                    ![t].uids = uids,
                                                    ![t].max_uid = task[t].last_uid]
                            /\ UNCHANGED <<syncing, stable>>
         [] outcome = "no" -> SearchNotOk(t)
         [] OTHER -> Finish(t, "exception:search", "")
    /\ UNCHANGED <<mailbox, client, connected, sync_state, emails, linkVars, propVars, model_call, procVars>>

\* _store_email: `pg_insert(Email)...on_conflict_do_nothing(["message_id"])`
StoreEmailUpsert(rows, mid, u, f) ==
    {r \in rows : r.message_id # mid} \cup {[message_id |-> mid, uid |-> u, folder |-> f]}
StoreEmail(rows, mid, u, f) ==
    IF \E r \in rows : r.message_id = mid
    THEN rows
    ELSE rows \cup {[message_id |-> mid, uid |-> u, folder |-> f]}

\* The counters of the result after one item of the loop.  what is
\*   "fetchfail" _fetch_email returned None (non-OK answer, no data, exception)
\*   "raise"     the session or the rollback raised into the loop's except
\*   "dberr"     execute/commit raised inside _store_email, which returns False
\*   "new"/"dup" _store_email returned rowcount > 0 / rowcount = 0
CountItem(res, what) ==
    CASE what = "new"   -> [res EXCEPT !.new_emails = @ + 1]
      [] what = "dup"   -> [res EXCEPT !.skipped = @ + 1]
      [] what = "dberr" -> [res EXCEPT !.skipped = @ + 1]
      [] what = "raise" -> [res EXCEPT !.errors = @ + 1]
      [] OTHER          -> res

\* `max_uid = max(max_uid, uid)`, reached when _fetch_email gave a message
\* and the store did not raise
AdvanceMax(max_uid, what, u) ==
    IF what \in {"new", "dup", "dberr"} THEN Max(max_uid, u) ELSE max_uid

\* `if max_uid > last_uid:` before _update_sync_state
NeedsUpdate(max_uid, last_uid) == max_uid > last_uid

\* One turn of `for uid in uids:`: fetch, parse, store, count.
Item(t, outcome) ==
    /\ NoRet
    /\ task[t].pc = "item"
    /\ LET u == Head(task[t].uids)
           f == task[t].folder
           fetched == client \in Folders /\ u <= Len(mailbox[client])
           mid == ParseMessageId(mailbox[client][u], u)
           what == IF outcome = "ok"
                   THEN (IF mid \in StoredIds THEN "dup" ELSE "new")
                   ELSE outcome
           rest == Tail(task[t].uids)
           newmax == AdvanceMax(task[t].max_uid, what, u)
           rec == [task[t] EXCEPT !.uids = rest,
                                  !.max_uid = newmax,
                                  !.res = CountItem(@, what),
                                  !.last = what,
                                  !.failed = IF what = "fetchfail" THEN @ \cup {u} ELSE @]
       IN  /\ outcome # "fetchfail" => fetched
           /\ emails' = IF outcome = "ok" THEN StoreEmail(emails, mid, u, f) ELSE emails
           /\ IF rest # <<>>
              THEN /\ task' = [task EXCEPT ![t] = rec]
                   /\ UNCHANGED <<syncing, stable>>
              ELSE IF NeedsUpdate(newmax, task[t].last_uid)
              THEN /\ task' = [task EXCEPT ![t] = [rec EXCEPT !.pc = "update"]]
                   /\ UNCHANGED <<syncing, stable>>
              ELSE FinishRec(t, rec)
    /\ UNCHANGED <<mailbox, client, connected, sync_state, linkVars, propVars, model_call, procVars>>

\* _update_sync_state: the row of the folder gets the watermark, the time
\* and the count.  last_sync is the row's logical time: every write of
\* datetime.now() is later than the one it replaces.
UpdatedRowSwapped(row, max_uid, new_count) ==
    [last_uid |-> new_count, last_sync |-> row.last_sync + 1,
     total_synced |-> row.total_synced + new_count]
UpdatedRow(row, max_uid, new_count) ==
    [last_uid |-> max_uid, last_sync |-> row.last_sync + 1,
     total_synced |-> row.total_synced + new_count]

\* `await self._update_sync_state(db, folder, max_uid, result["new_emails"])`
UpdateState(t, ok) ==
    /\ NoRet
    /\ task[t].pc = "update"
    /\ IF ok
       THEN LET f == task[t].folder
            IN  /\ sync_state' = [sync_state EXCEPT ![f] =
                      IF @ = NoRow THEN @
                      ELSE UpdatedRow(@, task[t].max_uid, task[t].res.new_emails)]
                /\ Finish(t, "", "")
       ELSE /\ Finish(t, "exception:update", "")
            /\ UNCHANGED sync_state
    /\ UNCHANGED <<mailbox, client, connected, emails, linkVars, propVars, model_call, procVars>>

\* ------------------------------------------------------------ environment
RECURSIVE SumLen(_, _)
SumLen(m, S) ==
    IF S = {} THEN 0
    ELSE LET f == CHOOSE x \in S : TRUE IN Len(m[f]) + SumLen(m, S \ {f})

MailCount == SumLen(mailbox, Folders)

Arrival(f) ==
    /\ NoRet
    /\ MailCount < MaxMail
    /\ mailbox' = [mailbox EXCEPT ![f] = Append(@, HeaderOf(f, Len(@) + 1))]
    /\ stable' = [stable EXCEPT ![f] = FALSE]
    /\ task' = [t \in Tasks |->
                  IF task[t].folder = f THEN [task[t] EXCEPT !.resync = FALSE]
                  ELSE task[t]]
    /\ UNCHANGED <<client, connected, syncing, sync_state, emails, linkVars, propVars, model_call, procVars>>

\* a message without a Message-ID header arrives in folder f
ArrivalHeaderless(f) ==
    /\ NoRet
    /\ MailCount < MaxMail
    /\ mailbox' = [mailbox EXCEPT ![f] = Append(@, NoHeader)]
    /\ stable' = [stable EXCEPT ![f] = FALSE]
    /\ task' = [t \in Tasks |->
                  IF task[t].folder = f THEN [task[t] EXCEPT !.resync = FALSE]
                  ELSE task[t]]
    /\ UNCHANGED <<client, connected, syncing, sync_state, emails, linkVars, propVars, model_call, procVars>>

\* The process dies and starts again: memory is lost, the database is kept.
Crash ==
    /\ task' = [t \in Tasks |-> IdleTask]
    /\ client' = "none"
    /\ connected' = FALSE
    /\ syncing' = FALSE
    /\ UNCHANGED <<mailbox, sync_state, emails, stable, linkVars, propVars, model_call, procVars>>

\* The task that runs a sync_folder call is cancelled at one of the call's
\* awaits: CancelledError passes `except Exception`, `finally` runs, and the
\* task ends.
FlagAfterCancelKept(busy) == busy
FlagAfterCancel(busy) == FALSE

CancelTask(t) ==
    /\ NoRet
    /\ InCall(t)
    /\ task' = [task EXCEPT ![t] = IdleTask]
    /\ syncing' = FlagAfterCancel(syncing)
    /\ UNCHANGED <<mailbox, client, connected, sync_state, emails, stable, linkVars, propVars, model_call, procVars>>

\* ------------------------------------------------------------------ callers
\* POST /api/sync/connect, when connect() succeeds (a connect that fails
\* leaves the engine disconnected, as it was)
ConnectImap ==
    /\ NoRet
    /\ ~connected
    /\ connected' = TRUE
    /\ client' = "auth"
    /\ UNCHANGED <<mailbox, syncing, sync_state, emails, task, stable, linkVars, propVars, model_call, procVars>>

\* POST /api/sync/disconnect
DisconnectImap ==
    /\ NoRet
    /\ connected \/ client # "none"
    /\ client' = "none"
    /\ connected' = FALSE
    /\ UNCHANGED <<mailbox, syncing, sync_state, emails, task, stable, linkVars, propVars, model_call, procVars>>

\* The connection to the mail server breaks.  Nothing in the engine notices:
\* _connected is assigned only by connect() and disconnect().
ConnectionLost ==
    /\ NoRet
    /\ connected
    /\ client # "none"
    /\ client' = "none"
    /\ UNCHANGED <<mailbox, connected, syncing, sync_state, emails, task, stable, linkVars, propVars, model_call, procVars>>

\* GET /api/sync/folder/{folder}/count: get_folder_count selects the folder on
\* the shared connection; a select that is refused or raises changes nothing
GetFolderCount(f, ok) ==
    /\ NoRet
    /\ connected
    /\ client' = IF ok /\ client # "none" THEN f ELSE client
    /\ UNCHANGED <<mailbox, connected, syncing, sync_state, emails, task, stable, linkVars, propVars, model_call, procVars>>

\* list_folders: a LIST command on the shared connection, which selects nothing
ListFolders ==
    /\ NoRet
    /\ connected
    /\ UNCHANGED vars

\* The call a task makes: periodic_sync starts with the first folder of the
\* list and no limit, POST /api/sync/run passes what the request names.
CallArgs(t, f, lim) == t = "periodic" => f = SyncFolderList[1] /\ lim = 0
FirstIdx(t) == IF t = "periodic" THEN 1 ELSE 0

\* POST /api/sync/run, and a round of periodic_sync after its sleep: when
\* the engine is not connected the caller first awaits connect(), and calls
\* sync_folder only if that succeeded (the connect and the call are taken as
\* one step; a connect that fails leaves every variable as it was).
StartCall(t, f, lim) ==
    /\ NoRet
    /\ task[t].pc = "idle"
    /\ CallArgs(t, f, lim)
    /\ connected' = TRUE
    /\ client' = IF connected THEN client ELSE "auth"
    /\ task' = [task EXCEPT ![t] = EnterRec(TRUE, syncing, f, lim, FirstIdx(t))]
    /\ syncing' = EnterFlag(TRUE, syncing)
    /\ UNCHANGED <<mailbox, sync_state, emails, stable, linkVars, propVars, model_call, procVars>>

\* The caller takes the result: the API answers, the periodic task goes on
\* with the next folder of the list or sleeps.
Resume(t) ==
    /\ task[t].pc = "ret"
    /\ IF t = "periodic" /\ task[t].idx < Len(SyncFolderList)
       THEN /\ task' = [task EXCEPT ![t] =
                          EnterRec(connected, syncing,
                                   SyncFolderList[task[t].idx + 1], 0, task[t].idx + 1)]
            /\ syncing' = EnterFlag(connected, syncing)
       ELSE /\ task' = [task EXCEPT ![t] = IdleTask]
            /\ UNCHANGED syncing
    /\ UNCHANGED <<mailbox, client, connected, sync_state, emails, stable, linkVars, propVars, model_call, procVars>>

\* ------------------------------------------------- periodic_sync, lifespan
\* `await asyncio.sleep(settings.sync_interval_minutes * 60)` returns
PeriodicWake ==
    /\ task["periodic"].pc = "idle"
    /\ task' = [task EXCEPT !["periodic"] = [IdleTask EXCEPT !.pc = "awake"]]
    /\ UNCHANGED <<mailbox, client, connected, syncing, sync_state, emails, stable, linkVars, propVars, model_call, procVars>>

\* The round after the sleep: when the engine is not connected the task awaits
\* connect() and on failure goes on with `continue`; else it makes the
\* sync_folder call for the first folder of the list.
PeriodicRound(ok) ==
    /\ NoRet
    /\ task["periodic"].pc = "awake"
    /\ IF connected \/ ok
       THEN /\ connected' = TRUE
            /\ client' = IF connected THEN client ELSE "auth"
            /\ task' = [task EXCEPT !["periodic"] =
                          EnterRec(TRUE, syncing, SyncFolderList[1], 0, 1)]
            /\ syncing' = EnterFlag(TRUE, syncing)
       ELSE /\ task' = [task EXCEPT !["periodic"] = IdleTask]
            /\ UNCHANGED <<client, connected, syncing>>
    /\ UNCHANGED <<mailbox, sync_state, emails, stable, linkVars, propVars, model_call, procVars>>

\* An exception leaves the body of the round after a call has returned:
\* `except Exception as e:` logs it and awaits asyncio.sleep(30).
RoundRaises ==
    /\ task["periodic"].pc = "ret"
    /\ task' = [task EXCEPT !["periodic"] = [IdleTask EXCEPT !.pc = "pause"]]
    /\ UNCHANGED <<mailbox, client, connected, syncing, sync_state, emails, stable, linkVars, propVars, model_call, procVars>>

\* the pause of the handler is over: the loop goes on with the next sleep
PauseOver ==
    /\ task["periodic"].pc = "pause"
    /\ task' = [task EXCEPT !["periodic"] = IdleTask]
    /\ UNCHANGED <<mailbox, client, connected, syncing, sync_state, emails, stable, linkVars, propVars, model_call, procVars>>

\* Where the task is after a CancelledError raised at the await it is at.
\* Were the error an Exception, the handler of the round would take it.
AfterCancelTakenAsError(pc) == IF pc = "pause" THEN "ended" ELSE "pause"
\* `except asyncio.CancelledError: break`; raised inside the handler of
\* `except Exception`, it leaves the coroutine
AfterCancel(pc) == "ended"

\* lifespan, shutdown: `_sync_task.cancel()` and `await _sync_task`.  The
\* error is raised at the await the task is at; inside a sync_folder call the
\* `finally` of the call runs first.
ShutdownCancel ==
    /\ lifespan = "up"
    /\ NoRet
    /\ task["periodic"].pc # "ended"
    /\ lifespan' = "stopping"
    /\ task' = [task EXCEPT !["periodic"] =
                  [IdleTask EXCEPT !.pc = AfterCancel(task["periodic"].pc)]]
    /\ syncing' = IF InCall("periodic") THEN FlagAfterCancel(syncing) ELSE syncing
    /\ UNCHANGED <<mailbox, client, connected, sync_state, emails, stable, linkVars, propVars, model_call, stored, tables, batch, profile, extraction, sender_seen>>

\* lifespan, shutdown: `await imap_sync.disconnect()` once the task has ended
ShutdownDisconnect ==
    /\ lifespan = "stopping"
    /\ task["periodic"].pc = "ended"
    /\ lifespan' = "down"
    /\ client' = "none"
    /\ connected' = FALSE
    /\ UNCHANGED <<mailbox, syncing, sync_state, emails, task, stable, linkVars, propVars, model_call, stored, tables, batch, profile, extraction, sender_seen>>

InitSync ==
    /\ mailbox = [f \in Folders |-> <<>>]
    /\ client = "none"
    /\ connected = FALSE
    /\ syncing = FALSE
    /\ sync_state = [f \in Folders |-> NoRow]
    /\ emails = {}
    /\ task = [t \in Tasks |-> IdleTask]
    /\ stable = [f \in Folders |-> FALSE]

\* No run_extraction_pipeline call is executing.
IdleRun ==
    [pc |-> "idle", dry |-> FALSE, min_rel |-> 0, lim |-> 0, groups |-> <<>>, k |-> 0,
     written |-> {}, results |-> <<>>, dispatched |-> {}, skipped |-> {}, errors |-> {},
     report |-> {}]

InitLinks ==
    /\ links = <<>>
    /\ run = IdleRun
    /\ gateway = [posted |-> {}, accepted |-> {}]

\* The kinds of stored, classified message: read and older than 30 days
\* with one classification row (noise, marketing) or with two after
\* process_email_by_id ran on it again (noise2), or unread (unread).
MsgKinds == {"noise", "marketing", "noise2", "unread"}

NoReply == [op |-> "-", id |-> 0, result |-> "-"]

InitProposals ==
    /\ msgs = [k \in MsgKinds |-> 0]
    /\ senders = {}
    /\ proposals = <<>>
    /\ items = {}
    /\ approving = 0
    /\ counted = -1
    /\ reply = NoReply

\* ---------------------------------------------------------- classifier client
\* A JSON value of a answer: absent key, null, a string, a number (in tenths)
\* or a list of strings.  The url of a LinkScore is such a value too: the code
\* stores whatever the reply holds under "url".
Absent == [t |-> "absent", s |-> "", n |-> 0, l |-> <<>>]
Null == [t |-> "null", s |-> "", n |-> 0, l |-> <<>>]
Str(x) == [t |-> "str", s |-> x, n |-> 0, l |-> <<>>]
Num(k) == [t |-> "num", s |-> "", n |-> k, l |-> <<>>]
List(q) == [t |-> "list", s |-> "", n |-> 0, l |-> q]

\* settings.ollama_model
OllamaModel == "ollama_model"

\* One element of "scored_links": a JSON object with some of its keys, or a
\* bare number.
NumberItem == [k |-> "number", url |-> Absent, relevance_score |-> Absent, link_type |-> Absent]
ObjectItem(url, score, type) ==
    [k |-> "object", url |-> url, relevance_score |-> score, link_type |-> type]
NoScoredLinks == [t |-> "absent", items |-> <<>>]

\* What the model wrote: not JSON at all, a top-level JSON array, or a JSON
\* object with some of the keys the prompts ask for.
Body(k, category, confidence, topics, relevance, scored_links) ==
    [k |-> k, category |-> category, confidence |-> confidence, topics |-> topics,
     relevance_score |-> relevance, scored_links |-> scored_links]
Garbage == Body("garbage", Absent, Absent, Absent, Absent, NoScoredLinks)
TopLevelArray == Body("array", Absent, Absent, Absent, Absent, NoScoredLinks)

\* The "response" text of the model: empty, or a body, possibly inside a
\* code fence and possibly after a sentence of prose.
Text(fenced, prose, body) == [empty |-> FALSE, fenced |-> fenced, prose |-> prose, body |-> body]
EmptyText == [empty |-> TRUE, fenced |-> FALSE, prose |-> FALSE, body |-> Garbage]

\* What the HTTP call to the model does: times out, fails in transport or
\* with an error status, answers with a body that is not the JSON object
\* Ollama sends, or answers with a response text.
Outcomes == {"timeout", "http_error", "bad_body", "ok"}
ModelReply(outcome, text) == [outcome |-> outcome, text |-> text]

ClassificationBodies ==
    {Garbage, TopLevelArray} \cup
    {Body("object", c, f, t, r, NoScoredLinks) :
        c \in {Absent, Str("Newsletter"), Str("spam"), Num(1)},
        f \in {Absent, Num(9), Str("high"), Null},
        t \in {Absent, List(<<"machine_learning">>), Str("machine_learning")},
        r \in {Absent, Num(8)}}

LinkInputs == {<<"https://arxiv.org/abs/2401.00001">>,
               <<"https://arxiv.org/abs/2401.00001", "https://youtube.com/watch?v=abc">>}
ScoredItems ==
    {NumberItem,
     ObjectItem(Absent, Absent, Absent),
     ObjectItem(Absent, Num(8), Str("article")),
     ObjectItem(Num(1), Num(8), Str("article")),
     ObjectItem(Str("https://arxiv.org/abs/2401.00001"), Num(8), Str("arxiv")),
     ObjectItem(Str("https://arxiv.org/abs/2401.00001"), Str("high"), Str("arxiv"))}
ScoredLinksValues ==
    {NoScoredLinks, [t |-> "null", items |-> <<>>], [t |-> "list", items |-> <<>>]} \cup
    {[t |-> "list", items |-> <<a>>] : a \in ScoredItems} \cup
    {[t |-> "list", items |-> <<a, b>>] : a \in ScoredItems, b \in ScoredItems}
LinkBodies ==
    {Garbage, TopLevelArray} \cup
    {Body("object", Absent, Absent, Absent, Absent, sl) : sl \in ScoredLinksValues}

RepliesOver(bodies) ==
    {ModelReply(o, EmptyText) : o \in Outcomes} \cup
    {ModelReply("ok", Text(f, p, b)) : f \in BOOLEAN, p \in BOOLEAN, b \in bodies}

\* Exceptions: "none" stands for no exception.  `except Exception` catches
\* each of the classes below.
ExceptionClasses == {"TimeoutException", "HTTPError", "JSONDecodeError", "KeyError",
                     "ValueError", "AttributeError", "TypeError"}
CaughtByException(exc) == exc \in ExceptionClasses
\* `except (json.JSONDecodeError, KeyError, ValueError)`
CaughtByParse(exc) == exc \in {"JSONDecodeError", "KeyError", "ValueError"}

\* The exception of the first expression that raises, in evaluation order.
RECURSIVE FirstExc(_)
FirstExc(excs) ==
    IF excs = <<>> THEN "none"
    ELSE IF Head(excs) # "none" THEN Head(excs)
    ELSE FirstExc(Tail(excs))

\* _call_ollama: the stripped response text, or None
CallOllama(answer) ==
    LET exc == CASE answer.outcome = "timeout" -> "TimeoutException"
                 [] answer.outcome = "http_error" -> "HTTPError"
                 [] answer.outcome = "bad_body" -> "AttributeError"
                 [] OTHER -> "none"
    IN  IF exc # "none" /\ CaughtByException(exc)
        THEN [none |-> TRUE, exc |-> "none", text |-> EmptyText]
        ELSE [none |-> FALSE, exc |-> exc, text |-> answer.text]

\* `if not response_text:`
NoResponseText(resp) == resp.none \/ resp.text.empty

\* _extract_json: a leading fence is stripped; the span from the first brace
\* to its match is returned, and the whole text when there is no brace.
ExtractJson(text) ==
    IF text.body.k = "object"
    THEN [fenced |-> FALSE, prose |-> FALSE, body |-> text.body]
    ELSE [fenced |-> text.fenced /\ text.prose, prose |-> text.prose, body |-> text.body]

\* json.loads
JsonLoadsExc(json_str) ==
    IF json_str.body.k = "garbage" \/ json_str.prose \/ json_str.fenced
    THEN "JSONDecodeError" ELSE "none"

\* data.get(...) on the loaded value
GetExc(data) == IF data.k = "object" THEN "none" ELSE "AttributeError"
\* float(data.get(key, 0.0))
FloatExc(v) ==
    CASE v.t \in {"absent", "num"} -> "none"
      [] v.t = "str" -> "ValueError"
      [] OTHER -> "TypeError"
FloatOf(v) == IF v.t = "num" THEN v.n ELSE 0
\* data.get("category", "noise").lower().strip()
LowerExc(v) == IF v.t \in {"absent", "str"} THEN "none" ELSE "AttributeError"
Lower(s) == IF s = "Newsletter" THEN "newsletter" ELSE s
CategoryOf(v) == IF v.t = "absent" THEN "noise" ELSE Lower(v.s)
\* topics=data.get("topics", []), then __post_init__
TopicsOf(v) == IF v.t \in {"absent", "null"} THEN List(<<>>) ELSE v

\* CATEGORIES
Categories == {"newsletter", "transactional", "notification", "personal", "marketing",
               "actionable", "noise"}

\* ClassificationResult(): the dataclass defaults
DefaultClassification ==
    [category |-> "noise", confidence |-> 0, topics |-> List(<<>>),
     relevance_score |-> 0, model_used |-> ""]

Returned(value) == [exc |-> "none", value |-> value]
Raised(exc, value) == [exc |-> exc, value |-> value]

\* _parse_classification
ParseClassification(text) ==
    LET json_str == ExtractJson(text)
        data == json_str.body
        exc == FirstExc(<<JsonLoadsExc(json_str), GetExc(data), LowerExc(data.category),
                          FloatExc(data.confidence), FloatExc(data.relevance_score)>>)
    IN  IF exc = "none"
        THEN Returned([category |-> CategoryOf(data.category),
                       confidence |-> FloatOf(data.confidence),
                       topics |-> TopicsOf(data.topics),
                       relevance_score |-> FloatOf(data.relevance_score),
                       model_used |-> ""])
        ELSE IF CaughtByParse(exc) THEN Returned(DefaultClassification)
        ELSE Raised(exc, DefaultClassification)

WithModel(result) == [result EXCEPT !.model_used = OllamaModel]

\* classify_email
ClassifyEmail(answer) ==
    LET resp == CallOllama(answer)
        parsed == ParseClassification(resp.text)
        exc == FirstExc(<<resp.exc, IF NoResponseText(resp) THEN "none" ELSE parsed.exc>>)
    IN  IF exc = "none"
        THEN IF NoResponseText(resp) THEN Returned(WithModel(DefaultClassification))
             ELSE Returned(WithModel(parsed.value))
        ELSE IF CaughtByException(exc) THEN Returned(WithModel(DefaultClassification))
        ELSE Raised(exc, DefaultClassification)

\* LinkScore(url=url): the dataclass defaults
DefaultScore(url) == [url |-> Str(url), relevance_score |-> 0, link_type |-> "other"]
\* `[LinkScore(url=url) for url in links]`
DefaultScores(urls) == [i \in 1..Len(urls) |-> DefaultScore(urls[i])]

\* one LinkScore of the loop of _parse_link_scores
ItemExc(item) ==
    FirstExc(<<IF item.k = "object" THEN "none" ELSE "AttributeError",
               FloatExc(item.relevance_score)>>)
LinkScoreOf(item) ==
    [url |-> IF item.url.t = "absent" THEN Str("") ELSE item.url,
     relevance_score |-> FloatOf(item.relevance_score),
     link_type |-> IF item.link_type.t = "absent" THEN "other" ELSE item.link_type.s]
\* `for item in data.get("scored_links", []):`
IterExc(scored_links) == IF scored_links.t = "null" THEN "TypeError" ELSE "none"

\* "Add any links that weren't scored"
Backfill(scored, original_links) ==
    LET scored_urls == {scored[i].url : i \in 1..Len(scored)}
        unscored(url) == Str(url) \notin scored_urls
    IN  scored \o DefaultScores(SelectSeq(original_links, unscored))

\* _parse_link_scores
ParseLinkScores(text, original_links) ==
    LET json_str == ExtractJson(text)
        data == json_str.body
        its == data.scored_links.items
        exc == FirstExc(<<JsonLoadsExc(json_str), GetExc(data), IterExc(data.scored_links)>>
                        \o [i \in 1..Len(its) |-> ItemExc(its[i])])
    IN  IF exc = "none"
        THEN Returned(Backfill([i \in 1..Len(its) |-> LinkScoreOf(its[i])], original_links))
        ELSE IF CaughtByParse(exc) THEN Returned(DefaultScores(original_links))
        ELSE Raised(exc, <<>>)

\* score_links
ScoreLinks(urls, answer) ==
    LET resp == CallOllama(answer)
        parsed == ParseLinkScores(resp.text, urls)
        exc == FirstExc(<<resp.exc, IF NoResponseText(resp) THEN "none" ELSE parsed.exc>>)
    IN  IF urls = <<>> THEN Returned(<<>>)
        ELSE IF exc = "none"
        THEN IF NoResponseText(resp) THEN Returned(DefaultScores(urls))
             ELSE Returned(parsed.value)
        ELSE IF CaughtByException(exc) THEN Returned(DefaultScores(urls))
        ELSE Raised(exc, <<>>)

NoModelCall ==
    [op |-> "-", links |-> <<>>, reply |-> ModelReply("ok", EmptyText), raised |-> "none",
     classification |-> DefaultClassification, scores |-> <<>>]

InitClassifier == model_call = NoModelCall

\* `await email_classifier.classify_email(...)` in _process_single
ClassifyEmailCall(answer) ==
    LET r == ClassifyEmail(answer)
    IN  /\ model_call' = [op |-> "classify_email", links |-> <<>>, reply |-> answer,
                          raised |-> r.exc, classification |-> r.value, scores |-> <<>>]
        /\ UNCHANGED <<syncVars, linkVars, propVars, procVars>>

\* `await email_classifier.score_links(...)` in _process_single
ScoreLinksCall(urls, answer) ==
    LET r == ScoreLinks(urls, answer)
    IN  /\ model_call' = [op |-> "score_links", links |-> urls, reply |-> answer,
                          raised |-> r.exc, classification |-> DefaultClassification,
                          scores |-> r.value]
        /\ UNCHANGED <<syncVars, linkVars, propVars, procVars>>

NextClassifier ==
    \/ \E answer \in RepliesOver(ClassificationBodies) : ClassifyEmailCall(answer)
    \/ \E urls \in LinkInputs, answer \in RepliesOver(LinkBodies) : ScoreLinksCall(urls, answer)

\* ----------------------------------------------------- processing orchestrator
ProcMsgs == 1..MaxStored
\* What the processor meets in a stored message: "plain", or "long_domain": one
\* of its links has a host part longer than the 256 characters of
\* extracted_links.domain.
StoredKinds == {"plain", "long_domain"}
\* Email.date_sent, as a rank: the larger, the more recent
DateSent(m) == CASE m = 1 -> 2 [] m = 2 -> 3 [] m = 3 -> 1 [] OTHER -> m
\* `if email_obj.from_address:` (message 2 carries no From header)
HasFrom(m) == m # 2
\* `if links:` (extract_links found a link in the message)
HasLinks(m) == stored[m] = "long_domain" \/ m = 1

\* limit arguments of process_unclassified
ProcLimits == {1, 2}

ProcTables == {"cls", "links", "sender"}
ProcRow(tbl, m) == [tbl |-> tbl, email_id |-> m]

\* `async with async_session() as db`: the transaction is usable, nothing added
NewSession == [active |-> TRUE, new |-> {}]

IdleBatch ==
    [pc |-> "idle", lim |-> 0, selected |-> <<>>, k |-> 0, processed |-> 0, errors |-> 0,
     session |-> NewSession]

InitProcess ==
    /\ stored = [m \in ProcMsgs |-> "absent"]
    /\ tables = [t \in ProcTables |-> [m \in ProcMsgs |-> 0]]
    /\ batch = IdleBatch

\* _store_email, as the processor sees it: one more row in emails
StoreMessage(m, kind) ==
    /\ stored[m] = "absent"
    /\ stored' = [stored EXCEPT ![m] = kind]
    /\ UNCHANGED <<syncVars, linkVars, propVars, model_call, tables, batch, profile, extraction, lifespan, sender_seen>>

\* `.where(~Email.id.in_(subquery))`
Unclassified == {m \in ProcMsgs : stored[m] # "absent" /\ tables.cls[m] = 0}

\* `.order_by(Email.date_sent.desc())`
RECURSIVE MostRecentFirst(_)
MostRecentFirst(ms) ==
    IF ms = {} THEN <<>>
    ELSE LET top == CHOOSE m \in ms : \A o \in ms : DateSent(m) >= DateSent(o)
         IN  <<top>> \o MostRecentFirst(ms \ {top})

\* `.limit(limit)`
FirstRows(rows, limit) == SubSeq(rows, 1, IF Len(rows) < limit THEN Len(rows) ELSE limit)

\* process_unclassified, up to the loop: the query, and the early return
ProcessUnclassifiedStart(limit) ==
    /\ batch.pc = "idle"
    /\ LET emails_found == FirstRows(MostRecentFirst(Unclassified), limit)
       IN  batch' = [pc |-> IF emails_found = <<>> THEN "idle" ELSE "loop",
                     lim |-> limit, selected |-> emails_found, k |-> 1,
                     processed |-> 0, errors |-> 0, session |-> NewSession]
    /\ UNCHANGED <<syncVars, linkVars, propVars, model_call, stored, tables, profile, extraction, lifespan, sender_seen>>

\* _process_single, steps 1 and 2: the rows added to the session
AddedRows(m) ==
    {ProcRow("cls", m)} \cup (IF HasLinks(m) THEN {ProcRow("links", m)} ELSE {})

\* the database takes the INSERTs of a flush
DbAccepts(rows) ==
    \A r \in rows : ~(r.tbl = "links" /\ stored[r.email_id] = "long_domain")

\* The session after a flush the database refused: the transaction is rolled
\* back, the new objects are expunged, and the session refuses every
\* statement until rollback() is called.
SessionAfterFlushError(session) == [active |-> FALSE, new |-> {}]

\* `await db.commit()`: the rows that become durable
CommittedClsOnly(session) == {r \in session.new : r.tbl = "cls"}
Committed(session) == session.new

Failed(session) == [raised |-> TRUE, session |-> session, rows |-> {}]
Done(session) ==
    [raised |-> FALSE, session |-> [session EXCEPT !.new = {}], rows |-> Committed(session)]

\* _process_single on the session of its caller
ProcessSingleIn(session, m) ==
    LET added == [session EXCEPT !.new = @ \cup AddedRows(m)]
    IN  IF HasFrom(m)
        THEN \* _update_sender_profile: the SELECT, which flushes first
             IF ~added.active THEN Failed(added)
             ELSE IF ~DbAccepts(added.new) THEN Failed(SessionAfterFlushError(added))
             ELSE Done([added EXCEPT !.new = @ \cup {ProcRow("sender", m)}])
        ELSE \* the commit flushes
             IF ~added.active THEN Failed(added)
             ELSE IF ~DbAccepts(added.new) THEN Failed(SessionAfterFlushError(added))
             ELSE Done(added)

Persist(rows) ==
    [t \in ProcTables |-> [m \in ProcMsgs |->
        tables[t][m] + (IF ProcRow(t, m) \in rows THEN 1 ELSE 0)]]

\* no sender_profiles row yet (dates are 1 and above)
NoSeen == [first_seen |-> 0, last_seen |-> 0]

\* _update_sender_profile on the dates of the row: a new row takes date_sent
\* for both, an existing row has last_seen raised and first_seen left alone
SeenAfter(row, m) ==
    IF row = NoSeen THEN [first_seen |-> DateSent(m), last_seen |-> DateSent(m)]
    ELSE [row EXCEPT !.last_seen = IF DateSent(m) > @ THEN DateSent(m) ELSE @]

\* the dates of the row after the rows of one commit for message m
SeenIn(row, m, rows) == IF ProcRow("sender", m) \in rows THEN SeenAfter(row, m) ELSE row

\* process_unclassified: one turn of `for email_obj in emails`
ProcessUnclassifiedItem ==
    /\ batch.pc = "loop"
    /\ batch.k <= Len(batch.selected)
    /\ LET r == ProcessSingleIn(batch.session, batch.selected[batch.k])
       IN  /\ tables' = Persist(r.rows)
           /\ sender_seen' = SeenIn(sender_seen, batch.selected[batch.k], r.rows)
           /\ batch' = [batch EXCEPT !.k = @ + 1, !.session = r.session,
                                     !.processed = IF r.raised THEN @ ELSE @ + 1,
                                     !.errors = IF r.raised THEN @ + 1 ELSE @]
    /\ UNCHANGED <<syncVars, linkVars, propVars, model_call, stored, profile, extraction, lifespan>>

\* process_unclassified: the session is closed and `result` returned
ProcessUnclassifiedReturn ==
    /\ batch.pc = "loop"
    /\ batch.k > Len(batch.selected)
    /\ batch' = [batch EXCEPT !.pc = "idle", !.session = NewSession]
    /\ UNCHANGED <<syncVars, linkVars, propVars, model_call, stored, tables, profile, extraction, lifespan, sender_seen>>

\* the tables after the rows of one commit
PersistIn(tbl, rows) ==
    [t \in ProcTables |-> [m \in ProcMsgs |->
        tbl[t][m] + (IF ProcRow(t, m) \in rows THEN 1 ELSE 0)]]

\* the loop of process_unclassified over the messages it selected, on one
\* session: the tables when it returns
RECURSIVE LoopOver(_, _, _)
LoopOver(session, selected, tbl) ==
    IF selected = <<>> THEN tbl
    ELSE LET r == ProcessSingleIn(session, Head(selected))
         IN  LoopOver(r.session, Tail(selected), PersistIn(tbl, r.rows))

\* the same loop: the dates of the sender's row when it returns
RECURSIVE SeenOver(_, _, _)
SeenOver(session, selected, row) ==
    IF selected = <<>> THEN row
    ELSE LET r == ProcessSingleIn(session, Head(selected))
         IN  SeenOver(r.session, Tail(selected), SeenIn(row, Head(selected), r.rows))

\* A second process_unclassified call runs from its query to its return while
\* the first call awaits the model's answer for its next message.
ProcessUnclassifiedMeanwhile(limit) ==
    /\ batch.pc = "loop"
    /\ batch.k <= Len(batch.selected)
    /\ LET emails_found == FirstRows(MostRecentFirst(Unclassified), limit)
       IN  /\ emails_found # <<>>
           /\ tables' = LoopOver(NewSession, emails_found, tables)
           /\ sender_seen' = SeenOver(NewSession, emails_found, sender_seen)
    /\ UNCHANGED <<syncVars, linkVars, propVars, model_call, stored, batch, profile, extraction, lifespan>>

\* Largest number of classification rows of one message.
MaxRows == 2

\* Email.is_read (message 3 is unread)
IsRead(m) == m # 3

\* process_email_by_id: `db.get(Email, email_id)`, None when there is no such
\* message, else _process_single on a session of its own
ProcessEmailById(m) ==
    /\ batch.pc = "idle"
    /\ tables.cls[m] < MaxRows
    /\ tables' = IF stored[m] = "absent" THEN tables
                 ELSE PersistIn(tables, ProcessSingleIn(NewSession, m).rows)
    /\ sender_seen' = IF stored[m] = "absent" THEN sender_seen
               ELSE SeenIn(sender_seen, m, ProcessSingleIn(NewSession, m).rows)
    /\ UNCHANGED <<syncVars, linkVars, propVars, model_call, stored, batch, profile, extraction, lifespan>>

NextProcessById ==
    \/ \E m \in ProcMsgs, kind \in StoredKinds : StoreMessage(m, kind)
    \/ \E limit \in ProcLimits : ProcessUnclassifiedStart(limit)
    \/ ProcessUnclassifiedItem
    \/ ProcessUnclassifiedReturn
    \/ \E m \in ProcMsgs : ProcessEmailById(m)

NextProcessTwice ==
    \/ \E m \in ProcMsgs, kind \in StoredKinds : StoreMessage(m, kind)
    \/ \E limit \in ProcLimits : ProcessUnclassifiedStart(limit)
    \/ ProcessUnclassifiedItem
    \/ ProcessUnclassifiedReturn
    \/ \E limit \in ProcLimits : ProcessUnclassifiedMeanwhile(limit)

NextProcess ==
    \/ \E m \in ProcMsgs, kind \in StoredKinds : StoreMessage(m, kind)
    \/ \E limit \in ProcLimits : ProcessUnclassifiedStart(limit)
    \/ ProcessUnclassifiedItem
    \/ ProcessUnclassifiedReturn

\* ------------------------------------------------------------ sender profile
\* Python floats are IEEE 754 doubles.  A natural number of any size is the
\* sequence of its binary digits, lowest first, without leading zeros; a
\* double is m * 2^e with m of at most 53 digits.
MantissaBits == 53

\* the number of digits left without the leading zeros
Normal(bits) ==
    LET ones == {i \in 1..Len(bits) : bits[i] = 1}
    IN  IF ones = {} THEN <<>>
        ELSE SubSeq(bits, 1, CHOOSE i \in ones : \A j \in ones : j <= i)

RECURSIVE NatBits(_)
NatBits(n) == IF n = 0 THEN <<>> ELSE <<n % 2>> \o NatBits(n \div 2)

BitAt(bits, i) == IF i >= 1 /\ i <= Len(bits) THEN bits[i] ELSE 0

\* Sums and products are computed on groups of ten digits.
LimbBits == 10
LimbBase == 1024
PowersOfTwo == <<1, 2, 4, 8, 16, 32, 64, 128, 256, 512>>

RECURSIVE LimbValue(_, _, _)
LimbValue(bits, j, t) ==
    IF t > LimbBits THEN 0
    ELSE BitAt(bits, LimbBits * (j - 1) + t) * PowersOfTwo[t] + LimbValue(bits, j, t + 1)

ToLimbs(bits) ==
    [j \in 1..((Len(bits) + LimbBits - 1) \div LimbBits) |-> LimbValue(bits, j, 1)]
ToBits(limbs) ==
    Normal([i \in 1..(LimbBits * Len(limbs)) |->
        (limbs[(i - 1) \div LimbBits + 1] \div PowersOfTwo[((i - 1) % LimbBits) + 1]) % 2])

LimbAt(limbs, j) == IF j >= 1 /\ j <= Len(limbs) THEN limbs[j] ELSE 0

\* column sums to limbs
RECURSIVE Propagate(_, _)
Propagate(cols, carry) ==
    IF cols = <<>>
    THEN IF carry = 0 THEN <<>> ELSE <<carry % LimbBase>> \o Propagate(<<>>, carry \div LimbBase)
    ELSE <<(Head(cols) + carry) % LimbBase>>
         \o Propagate(Tail(cols), (Head(cols) + carry) \div LimbBase)

BigAdd(a, b) ==
    LET la == ToLimbs(a)
        lb == ToLimbs(b)
        n == IF Len(la) >= Len(lb) THEN Len(la) ELSE Len(lb)
    IN  ToBits(Propagate([j \in 1..n |-> LimbAt(la, j) + LimbAt(lb, j)], 0))

RECURSIVE Column(_, _, _, _)
Column(la, lb, j, i) ==
    IF i > Len(la) THEN 0
    ELSE la[i] * LimbAt(lb, j - i + 1) + Column(la, lb, j, i + 1)

BigMul(a, b) ==
    LET la == ToLimbs(a)
        lb == ToLimbs(b)
    IN  IF a = <<>> \/ b = <<>> THEN <<>>
        ELSE ToBits(Propagate([j \in 1..(Len(la) + Len(lb) - 1) |-> Column(la, lb, j, 1)], 0))

ShiftLeft(a, k) == IF a = <<>> THEN <<>> ELSE [i \in 1..k |-> 0] \o a

BigLeq(a, b) ==
    \/ Len(a) < Len(b)
    \/ /\ Len(a) = Len(b)
       /\ \/ a = b
          \/ \E i \in 1..Len(a) : a[i] < b[i] /\ \A j \in (i + 1)..Len(a) : a[j] = b[j]

\* quotient and remainder of a natural by a small divisor, highest limb first
RECURSIVE DivLimbs(_, _, _, _)
DivLimbs(limbs, d, rem, acc) ==
    IF limbs = <<>> THEN [q |-> ToBits(acc), rem |-> rem]
    ELSE LET cur == LimbBase * rem + limbs[Len(limbs)]
         IN  DivLimbs(SubSeq(limbs, 1, Len(limbs) - 1), d, cur % d, <<cur \div d>> \o acc)
DivSmall(bits, d) == DivLimbs(ToLimbs(bits), d, 0, <<>>)

\* round to nearest, ties to even; inexact: digits below the lowest were dropped
RoundToDouble(m, e, inexact) ==
    IF Len(m) <= MantissaBits THEN [m |-> m, e |-> e]
    ELSE LET k == Len(m) - MantissaBits
             q == SubSeq(m, k + 1, Len(m))
             sticky == inexact \/ \E i \in 1..(k - 1) : m[i] = 1
             up == m[k] = 1 /\ (sticky \/ q[1] = 1)
         IN  [m |-> IF up THEN BigAdd(q, <<1>>) ELSE q, e |-> e + k]

\* the double of the decimal literal k/10: float() of the model's number, and
\* the literals 0.8 and 0.2 of the source
FromTenths(k) ==
    LET d == DivSmall(ShiftLeft(NatBits(k), 60), 10)
    IN  RoundToDouble(d.q, -60, d.rem # 0)

FloatMul(x, y) == RoundToDouble(BigMul(x.m, y.m), x.e + y.e, FALSE)
FloatAdd(x, y) ==
    LET e == IF x.e <= y.e THEN x.e ELSE y.e
    IN  RoundToDouble(BigAdd(ShiftLeft(x.m, x.e - e), ShiftLeft(y.m, y.e - e)), e, FALSE)
\* x <= y, for any two m * 2^e
FloatLeq(x, y) ==
    LET e == IF x.e <= y.e THEN x.e ELSE y.e
    IN  BigLeq(ShiftLeft(x.m, x.e - e), ShiftLeft(y.m, y.e - e))

\* `profile.relevance_score * 0.8 + classification.relevance_score * 0.2`
RollingSwapped(old, new) ==
    FloatAdd(FloatMul(old, FromTenths(2)), FloatMul(new, FromTenths(8)))
Rolling(old, new) ==
    FloatAdd(FloatMul(old, FromTenths(8)), FloatMul(new, FromTenths(2)))

\* relevance scores of the classifications of one sender's messages, in tenths
RelevanceChoices == {1, 4, 9}

\* no row in sender_profiles for the sender yet
NoProfile == [total_emails |-> 0, relevance_score |-> FromTenths(0), scores |-> <<>>]

\* _update_sender_profile for a message of the sender whose classification
\* has the given relevance
UpdateSenderProfile(score) ==
    /\ profile.total_emails < MaxSenderEmails
    /\ profile' =
          [total_emails |-> profile.total_emails + 1,
           relevance_score |->
               IF profile.total_emails = 0 THEN FromTenths(score)
               ELSE Rolling(profile.relevance_score, FromTenths(score)),
           scores |-> Append(profile.scores, score)]
    /\ UNCHANGED <<syncVars, linkVars, propVars, model_call, stored, tables, batch, extraction, lifespan, sender_seen>>

NextSender == \E score \in RelevanceChoices : UpdateSenderProfile(score)

\* ------------------------------------------------------------ link extraction
\* A string is the sequence of its characters.  Ascii lists the printable
\* characters in code order, 32 to 126: Python compares strings by code point.
\* The entry of code 96 is written out as a word; no body below contains it.
Ascii ==
    <<" ", "!", "\"", "#", "$", "%", "&", "'", "(", ")", "*", "+", ",", "-", ".", "/", "0",
      "1", "2", "3", "4", "5", "6", "7", "8", "9", ":", ";", "<", "=", ">", "?", "@", "A",
      "B", "C", "D", "E", "F", "G", "H", "I", "J", "K", "L", "M", "N", "O", "P", "Q", "R",
      "S", "T", "U", "V", "W", "X", "Y", "Z", "[", "\\", "]", "^", "_", "grave", "a", "b", "c",
      "d", "e", "f", "g", "h", "i", "j", "k", "l", "m", "n", "o", "p", "q", "r", "s", "t",
      "u", "v", "w", "x", "y", "z", "{", "|", "}", "~">>

Ord(c) == 31 + (CHOOSE i \in 1..Len(Ascii) : Ascii[i] = c)

\* str.lower(), on one character and on a string
LowerChar(c) == IF Ord(c) \in 65..90 THEN Ascii[Ord(c) + 1] ELSE c
StrLower(s) == SubSeq([i \in 1..Len(s) |-> LowerChar(s[i])], 1, Len(s))

\* p occurs in s at position i
OccursAt(s, p, i) ==
    /\ i + Len(p) - 1 <= Len(s)
    /\ \A k \in 1..Len(p) : s[i + k - 1] = p[k]

\* `p in s`
Contains(s, p) == \E i \in 1..Len(s) : OccursAt(s, p, i)

\* str.startswith
StartsWith(s, p) == OccursAt(s, p, 1)

Whitespace == {" "}

\* str.rstrip(chars), str.strip()
RStrip(s, chars) ==
    LET keep == {i \in 1..Len(s) : s[i] \notin chars}
    IN  IF keep = {} THEN <<>>
        ELSE SubSeq(s, 1, CHOOSE i \in keep : \A j \in keep : j <= i)
Strip(s) ==
    LET keep == {i \in 1..Len(s) : s[i] \notin Whitespace}
    IN  IF keep = {} THEN <<>>
        ELSE SubSeq(s, CHOOSE i \in keep : \A j \in keep : i <= j,
                       CHOOSE i \in keep : \A j \in keep : j <= i)

\* a < b for Python strings
StrLess(a, b) ==
    \E i \in 1..Len(b) :
        /\ \A k \in 1..(i - 1) : k <= Len(a) /\ a[k] = b[k]
        /\ i > Len(a) \/ Ord(a[i]) < Ord(b[i])

\* sorted(urls) of a set of strings
RECURSIVE SortedStrings(_)
SortedStrings(S) ==
    IF S = {} THEN <<>>
    ELSE LET least == CHOOSE a \in S : \A b \in S \ {a} : StrLess(a, b)
         IN  <<least>> \o SortedStrings(S \ {least})

\* junk_patterns of _is_junk_url
JunkPatterns == {
    <<"u", "n", "s", "u", "b", "s", "c", "r", "i", "b", "e">>,
    <<"l", "i", "s", "t", "-", "u", "n", "s", "u", "b", "s", "c", "r", "i", "b", "e">>,
    <<"m", "a", "n", "a", "g", "e", "-", "p", "r", "e", "f", "e", "r", "e", "n", "c", "e",
      "s">>,
    <<"e", "m", "a", "i", "l", "-", "p", "r", "e", "f", "e", "r", "e", "n", "c", "e", "s">>,
    <<"t", "r", "a", "c", "k", "i", "n", "g">>,
    <<"c", "l", "i", "c", "k", ".", "m", "a", "i", "l", "c", "h", "i", "m", "p">>,
    <<"c", "l", "i", "c", "k", ".", "c", "o", "n", "v", "e", "r", "t", "k", "i", "t">>,
    <<"c", "l", "i", "c", "k", ".", "p", "s", "t", "m", "r", "k">>,
    <<"e", "m", "a", "i", "l", ".", "m", "g", ".">>,
    <<"m", "a", "n", "d", "r", "i", "l", "l", "a", "p", "p", ".", "c", "o", "m">>,
    <<"s", "e", "n", "d", "g", "r", "i", "d", ".", "n", "e", "t", "/", "w", "f", "/", "c",
      "l", "i", "c", "k">>,
    <<"l", "i", "s", "t", "-", "m", "a", "n", "a", "g", "e", ".", "c", "o", "m", "/", "t",
      "r", "a", "c", "k">>,
    <<"o", "p", "e", "n", ".", "s", "u", "b", "s", "t", "a", "c", "k", ".", "c", "o", "m",
      "/", "p", "u", "b">>,
    <<".", "g", "i", "f", "?">>,
    <<".", "p", "n", "g", "?", "u", "=">>,
    <<"b", "e", "a", "c", "o", "n", ".">>,
    <<"p", "i", "x", "e", "l", ".">>,
    <<"/", "t", "r", "a", "c", "k", "/", "o", "p", "e", "n">>,
    <<"/", "o", "/">> }

\* _is_junk_url: any pattern occurs in the lower-cased URL
IsJunkUrl(url) == LET url_lower == StrLower(url) IN \E p \in JunkPatterns : Contains(url_lower, p)

HttpPrefix == <<"h", "t", "t", "p", ":", "/", "/">>
HttpsPrefix == <<"h", "t", "t", "p", "s", ":", "/", "/">>

\* `href.startswith(("http://", "https://"))`
HrefIsHttp(href) == StartsWith(href, HttpPrefix) \/ StartsWith(href, HttpsPrefix)

\* the characters the class [^\s<>"')\]] of url_pattern rejects
UrlStop == Whitespace \cup {"<", ">", "\"", "'", ")", "]"}

\* the characters `rstrip(".,;:!?)")` removes
Trailing == {".", ",", ";", ":", "!", "?", ")"}

\* Length of the scheme that url_pattern matches at position i of text, 0 if
\* none: `https?://` under re.IGNORECASE followed by one accepted character.
SchemeAt(text, i) ==
    LET last == IF i + Len(HttpsPrefix) - 1 <= Len(text) THEN i + Len(HttpsPrefix) - 1
                ELSE Len(text)
        head == StrLower(SubSeq(text, i, last))
        n == IF StartsWith(head, HttpsPrefix) THEN Len(HttpsPrefix)
             ELSE IF StartsWith(head, HttpPrefix) THEN Len(HttpPrefix)
             ELSE 0
    IN  IF n > 0 /\ i + n <= Len(text) /\ text[i + n] \notin UrlStop THEN n ELSE 0

\* End of the match that starts at i: the class is greedy.
MatchEnd(text, i) ==
    LET stops == {j \in (i + SchemeAt(text, i))..Len(text) : text[j] \in UrlStop}
    IN  IF stops = {} THEN Len(text)
        ELSE (CHOOSE j \in stops : \A k \in stops : j <= k) - 1

\* url_pattern.finditer(text) from position i on: the matches from left to
\* right, none overlapping another.
RECURSIVE FindIter(_, _)
FindIter(text, i) ==
    IF i > Len(text) THEN {}
    ELSE IF SchemeAt(text, i) = 0 THEN FindIter(text, i + 1)
    ELSE {SubSeq(text, i, MatchEnd(text, i))} \cup FindIter(text, MatchEnd(text, i) + 1)

\* a body: None, or a string
NoBody == [given |-> FALSE, value |-> <<>>]
Given(v) == [given |-> TRUE, value |-> v]

\* `if html:`, `if text:`
Truthy(body) == body.given /\ body.value # <<>>

\* extract_links.  The HTML body is given by the href values of its anchors
\* in document order, the text body by its characters.
HtmlUrls(html) ==
    IF ~Truthy(html) THEN {}
    ELSE {h \in {Strip(html.value[i]) : i \in 1..Len(html.value)} :
             h # <<>> /\ HrefIsHttp(h) /\ ~IsJunkUrl(h)}

TextUrls(text) ==
    IF ~Truthy(text) THEN {}
    ELSE {u \in {RStrip(m, Trailing) : m \in FindIter(text.value, 1)} : ~IsJunkUrl(u)}

ExtractLinks(html, text) == SortedStrings(HtmlUrls(html) \cup TextUrls(text))

\* the bodies of the calls
ArxivUrl ==
    <<"h", "t", "t", "p", "s", ":", "/", "/", "a", "r", "x", "i", "v", ".", "o", "r", "g",
      "/", "a", "b", "s", "/", "2", "4", "0", "1", ".", "1", "2", "3", "4", "5">>
GithubUrl ==
    <<"h", "t", "t", "p", "s", ":", "/", "/", "g", "i", "t", "h", "u", "b", ".", "c", "o",
      "m", "/", "c", "o", "o", "l", "/", "p", "r", "o", "j", "e", "c", "t">>
UnsubscribeUrl ==
    <<"h", "t", "t", "p", "s", ":", "/", "/", "u", "n", "s", "u", "b", "s", "c", "r", "i",
      "b", "e", ".", "e", "x", "a", "m", "p", "l", "e", ".", "c", "o", "m", "/", "t", "r",
      "a", "c", "k", "/", "1", "2", "3">>
UpperJunkUrl ==
    <<"h", "t", "t", "p", "s", ":", "/", "/", "x", ".", "i", "o", "/", "U", "N", "S", "U",
      "B", "S", "C", "R", "I", "B", "E">>
UpperSchemeUrl ==
    <<"H", "T", "T", "P", "S", ":", "/", "/", "a", "r", "x", "i", "v", ".", "o", "r", "g",
      "/", "a", "b", "s", "/", "7">>
MailtoHref ==
    <<"m", "a", "i", "l", "t", "o", ":", "a", "@", "b", ".", "c">>
PaddedHref ==
    <<" ", "h", "t", "t", "p", "s", ":", "/", "/", "g", "i", "t", "h", "u", "b", ".", "c",
      "o", "m", "/", "c", "o", "o", "l", "/", "p", "r", "o", "j", "e", "c", "t", " ">>
TextTrailing ==
    <<"s", "e", "e", " ", "h", "t", "t", "p", "s", ":", "/", "/", "a", "r", "x", "i", "v",
      ".", "o", "r", "g", "/", "a", "b", "s", "/", "2", "4", "0", "1", ".", "1", "2", "3",
      "4", "5", ".">>
TextMixed ==
    <<"(", "h", "t", "t", "p", "s", ":", "/", "/", "g", "i", "t", "h", "u", "b", ".", "c",
      "o", "m", "/", "c", "o", "o", "l", "/", "p", "r", "o", "j", "e", "c", "t", ")", " ",
      "H", "T", "T", "P", ":", "/", "/", "x", ".", "i", "o", "/", "a", ",", " ", "h", "t",
      "t", "p", "s", ":", "/", "/", "x", ".", "i", "o", "/", "t", "r", "a", "c", "k", "i",
      "n", "g">>
TextNoUrl ==
    <<"n", "o", " ", "l", "i", "n", "k", ",", " ", "o", "n", "l", "y", " ", "h", "t", "t",
      "p", ":", "/", "/", " ", "a", "n", "d", " ", "f", "t", "p", ":", "/", "/", "x", ".",
      "i", "o">>
TextPixel ==
    <<"<", "h", "t", "t", "p", "s", ":", "/", "/", "x", ".", "i", "o", "/", "a", ".", "g",
      "i", "f", "?", ">", " ", "h", "t", "t", "p", "s", ":", "/", "/", "x", ".", "i", "o",
      "/", "o", "/", "1">>

Hrefs == {ArxivUrl, GithubUrl, UnsubscribeUrl, UpperJunkUrl, UpperSchemeUrl, MailtoHref, PaddedHref}

MaxAnchors == 3

HtmlBodies == {NoBody} \cup {Given(a) : a \in UNION {[1..n -> Hrefs] : n \in 0..MaxAnchors}}

TextBodies ==
    {NoBody} \cup {Given(t) : t \in {<<>>, TextTrailing, TextMixed, TextNoUrl, TextPixel}}

NotParsed == [called |-> FALSE, html |-> NoBody, text |-> NoBody, links |-> <<>>]

\* one call of extract_links; the next call starts after the caller took the list
ExtractLinksCall(html, text) ==
    /\ ~extraction.called
    /\ extraction' = [called |-> TRUE, html |-> html, text |-> text,
                  links |-> ExtractLinks(html, text)]
    /\ UNCHANGED <<syncVars, linkVars, propVars, model_call, stored, tables, batch, profile, lifespan, sender_seen>>

\* parse_raw_email puts the list into the ParsedEmail it returns
ExtractLinksTaken ==
    /\ extraction.called
    /\ extraction' = NotParsed
    /\ UNCHANGED <<syncVars, linkVars, propVars, model_call, stored, tables, batch, profile, lifespan, sender_seen>>

NextParser ==
    \/ \E html \in HtmlBodies, text \in TextBodies : ExtractLinksCall(html, text)
    \/ ExtractLinksTaken

Init ==
    /\ InitSync /\ InitLinks /\ InitProposals /\ InitClassifier /\ InitProcess
    /\ profile = NoProfile
    /\ extraction = NotParsed
    /\ lifespan = "up"
    /\ sender_seen = NoSeen

\* ------------------------------------------------------------ link pipeline
\* `"pending" if scored.relevance_score >= 0.5 else "skipped"`, in tenths
PendingThreshold == 5

InitialStatus(score) == IF score >= PendingThreshold THEN "pending" ELSE "skipped"

\* classify_link on the URLs of the model: the junk list holds "click."
ClassifyLink(url) ==
    CASE url = "https://click.example.com/t/1" -> "junk"
      [] url = "https://arxiv.org/abs/2401.00001" -> "arxiv"
      [] url = "https://youtube.com/watch?v=abc" -> "youtube"
      [] OTHER -> "generic"

NextEmailId == IF links = <<>> THEN 1 ELSE links[Len(links)].email_id + 1

\* _process_single, step 2: one row per scored link of the message
LinkRow(e, sl) ==
    [email_id |-> e, url |-> sl[1], relevance_score |-> sl[2], link_type |-> "other",
     pipeline_status |-> InitialStatus(sl[2])]

ProcessSingle(scored) ==
    /\ Len(links) + Len(scored) <= MaxLinks
    /\ links' = links \o [i \in 1..Len(scored) |-> LinkRow(NextEmailId, scored[i])]
    /\ UNCHANGED <<syncVars, propVars, model_call, procVars, run, gateway>>

\* ids of the rows a query selects, highest relevance first (ties by id)
RECURSIVE ByScoreDesc(_)
ByScoreDesc(ids) ==
    IF ids = {} THEN <<>>
    ELSE LET top == CHOOSE i \in ids : \A j \in ids :
                        \/ links[i].relevance_score > links[j].relevance_score
                        \/ links[i].relevance_score = links[j].relevance_score /\ i <= j
         IN  <<top>> \o ByScoreDesc(ids \ {top})

PendingAtLeast(min_rel) ==
    {i \in 1..Len(links) : links[i].pipeline_status = "pending"
                           /\ links[i].relevance_score >= min_rel}

\* PipelineAdapter.queue_links_for_extraction
QueueLinksForExtraction(min_rel, limit) ==
    LET sel == ByScoreDesc(PendingAtLeast(min_rel))
        ids == {sel[k] : k \in 1..(IF Len(sel) < limit THEN Len(sel) ELSE limit)}
    IN  /\ ids # {}
        /\ links' = [i \in 1..Len(links) |->
                       IF i \in ids THEN [links[i] EXCEPT !.pipeline_status = "queued"]
                       ELSE links[i]]
        /\ UNCHANGED <<syncVars, propVars, model_call, procVars, run, gateway>>

\* A row the open transaction of the run has written is locked until it ends.
Locked(i) == i \in run.written

\* PipelineAdapter.mark_extracted
MarkExtracted(i) ==
    /\ i \in 1..Len(links)
    /\ ~Locked(i)
    /\ links[i].pipeline_status # "extracted"
    /\ links' = [links EXCEPT ![i].pipeline_status = "extracted"]
    /\ UNCHANGED <<syncVars, propVars, model_call, procVars, run, gateway>>

\* PATCH /links/{link_id}/status
UpdateLinkStatus(i, status) ==
    /\ i \in 1..Len(links)
    /\ ~Locked(i)
    /\ links[i].pipeline_status # status
    /\ links' = [links EXCEPT ![i].pipeline_status = status]
    /\ UNCHANGED <<syncVars, propVars, model_call, procVars, run, gateway>>

\* The table after the classify pass: every pending link at or above
\* min_rel gets its content type, and a junk one is skipped.
ScanTableStale(tbl, min_rel) ==
    [i \in 1..Len(tbl) |->
        IF tbl[i].pipeline_status = "pending" /\ tbl[i].relevance_score >= min_rel
        THEN [tbl[i] EXCEPT
                !.link_type = ClassifyLink(tbl[i].url),
                !.pipeline_status = IF tbl[i].link_type = "junk" THEN "skipped" ELSE @]
        ELSE tbl[i]]
ScanTable(tbl, min_rel) ==
    [i \in 1..Len(tbl) |->
        IF tbl[i].pipeline_status = "pending" /\ tbl[i].relevance_score >= min_rel
        THEN [tbl[i] EXCEPT
                !.link_type = ClassifyLink(tbl[i].url),
                !.pipeline_status =
                    IF ClassifyLink(tbl[i].url) = "junk" THEN "skipped" ELSE @]
        ELSE tbl[i]]

ScannedLinks(min_rel) == ScanTable(links, min_rel)

\* ContentBridge.scan_and_classify_links
ScanAndClassifyLinks(min_rel) ==
    /\ PendingAtLeast(min_rel) # {}
    /\ links' = ScannedLinks(min_rel)
    /\ UNCHANGED <<syncVars, propVars, model_call, procVars, run, gateway>>

\* ------------------------------------------------------ extraction pipeline
\* `classify_stats = await self.scan_and_classify_links(min_relevance=0.3)`
ScanMinRelevance == 3
\* `"urls": urls[:5]` in the report of a dry run
ReportUrlCap == 5

\* CONTENT_PATTERNS.get(content_type, {}).get("extractor")
Extractor(ty) ==
    IF ty \in {"medium", "arxiv", "github", "twitter", "hackernews", "devto"} THEN ty
    ELSE "none"

\* the same selection with `relevance_score > min_relevance`
EligibleStrictlyAbove(min_rel) ==
    {i \in PendingAtLeast(min_rel + 1) : links[i].link_type \notin {"junk", "generic"}}
\* the rows the pipeline selects, highest relevance first
Eligible(min_rel) ==
    {i \in PendingAtLeast(min_rel) : links[i].link_type \notin {"junk", "generic"}}

\* the content types of a list of links, in the order of their first link
RECURSIVE TypesInOrder(_, _)
TypesInOrder(sel, seen) ==
    IF sel = <<>> THEN <<>>
    ELSE LET ty == links[Head(sel)].link_type
         IN  IF ty \in seen THEN TypesInOrder(Tail(sel), seen)
             ELSE <<ty>> \o TypesInOrder(Tail(sel), seen \cup {ty})

\* `if len(by_type[ct]) < limit_per_type: by_type[ct].append(link)`
GroupIdsFromEnd(sel, ty, lim) ==
    LET mine == SelectSeq(sel, LAMBDA i : links[i].link_type = ty)
    IN  SubSeq(mine, IF Len(mine) < lim THEN 1 ELSE Len(mine) - lim + 1, Len(mine))
GroupIds(sel, ty, lim) ==
    LET mine == SelectSeq(sel, LAMBDA i : links[i].link_type = ty)
    IN  SubSeq(mine, 1, IF Len(mine) < lim THEN Len(mine) ELSE lim)

\* by_type, as the list of its items
Groups(min_rel, lim) ==
    LET sel == ByScoreDesc(Eligible(min_rel))
        tys == TypesInOrder(sel, {})
    IN  [k \in 1..Len(tys) |-> [type |-> tys[k], ids |-> GroupIds(sel, tys[k], lim)]]

\* the entry of result["dispatched"] a dry run writes for a group
DryEntry(g) ==
    [type |-> g.type, count |-> Len(g.ids),
     urls |-> [j \in 1..(IF Len(g.ids) < ReportUrlCap THEN Len(g.ids) ELSE ReportUrlCap)
                 |-> links[g.ids[j]].url]]

\* POST /api/content/extract
RunStart(min_rel, lim, dry) ==
    /\ run.pc = "idle"
    /\ run' = [IdleRun EXCEPT !.pc = "scan", !.dry = dry, !.min_rel = min_rel, !.lim = lim]
    /\ UNCHANGED <<syncVars, propVars, model_call, procVars, links, gateway>>

\* step 1 of run_extraction_pipeline
RunScan ==
    /\ run.pc = "scan"
    /\ links' = ScannedLinks(ScanMinRelevance)
    /\ run' = [run EXCEPT !.pc = "query"]
    /\ UNCHANGED <<syncVars, propVars, model_call, procVars, gateway>>

\* step 2, and for a dry run the whole of step 3, which awaits nothing
RunQuery ==
    /\ run.pc = "query"
    /\ LET gs == Groups(run.min_rel, run.lim)
       IN  run' = IF run.dry
                  THEN [run EXCEPT !.pc = "commit", !.groups = gs,
                                   !.report = {DryEntry(gs[k]) : k \in 1..Len(gs)}]
                  ELSE IF gs = <<>>
                  THEN [run EXCEPT !.pc = "commit"]
                  ELSE [run EXCEPT !.pc = "dispatch", !.groups = gs, !.k = 1]
    /\ UNCHANGED <<syncVars, propVars, model_call, procVars, links, gateway>>
\* after a group: the next one, or `await db.commit()`
NextGroup(rec) ==
    IF rec.k < Len(rec.groups) THEN [rec EXCEPT !.k = @ + 1, !.pc = "dispatch"]
    ELSE [rec EXCEPT !.pc = "commit"]

\* dispatch_to_extraction_gateway: no request without an extractor
DispatchStatus(ty, answer) == IF Extractor(ty) = "none" THEN "skipped" ELSE answer

\* `if dispatch_result["status"] == "dispatched":`
MarksQueuedAlways(status) == TRUE
MarksQueued(status) == status = "dispatched"

\* step 3 for one group of a live run: the dispatch and the branch on its result
RunDispatch(answer) ==
    /\ run.pc = "dispatch"
    /\ LET g == run.groups[run.k]
           ids == Range(g.ids)
           status == DispatchStatus(g.type, answer)
           rec == [run EXCEPT !.results = Append(@, status)]
       IN  /\ gateway' =
                IF Extractor(g.type) = "none" THEN gateway
                ELSE [posted |-> gateway.posted \cup ids,
                      accepted |-> IF answer = "dispatched"
                                   THEN gateway.accepted \cup ids ELSE gateway.accepted]
           /\ run' = IF MarksQueued(status) THEN [rec EXCEPT !.pc = "update"]
                     ELSE IF status = "skipped"
                     THEN NextGroup([rec EXCEPT !.skipped = @ \cup {g.type}])
                     ELSE NextGroup([rec EXCEPT !.errors = @ \cup {g.type}])
    /\ UNCHANGED <<syncVars, propVars, model_call, procVars, links>>

\* `await db.execute(update(ExtractedLink).where(id.in_(link_ids)).values(...))`
\* inside the transaction of the run; an exception leaves the function
RunUpdate(ok) ==
    /\ run.pc = "update"
    /\ LET g == run.groups[run.k]
       IN  run' = IF ok
                  THEN NextGroup([run EXCEPT !.written = @ \cup Range(g.ids),
                                             !.dispatched = @ \cup {g.type}])
                  ELSE [run EXCEPT !.pc = "failed", !.written = {}]
    /\ UNCHANGED <<syncVars, propVars, model_call, procVars, links, gateway>>

\* `await db.commit()`
RunCommit(ok) ==
    /\ run.pc = "commit"
    /\ IF ok
       THEN /\ links' = [i \in 1..Len(links) |->
                           IF i \in run.written
                           THEN [links[i] EXCEPT !.pipeline_status = "queued"]
                           ELSE links[i]]
            /\ run' = [run EXCEPT !.pc = "done", !.written = {}]
       ELSE /\ run' = [run EXCEPT !.pc = "failed", !.written = {}]
            /\ UNCHANGED links
    /\ UNCHANGED <<syncVars, propVars, model_call, procVars, gateway>>

\* the caller takes the result or the exception
RunReturn ==
    /\ run.pc \in {"done", "failed"}
    /\ run' = IdleRun
    /\ UNCHANGED <<syncVars, propVars, model_call, procVars, links, gateway>>

\* The process dies during a run: the open transaction is lost.
RunCrash ==
    /\ run.pc \in {"scan", "query", "dispatch", "update", "commit"}
    /\ run' = IdleRun
    /\ UNCHANGED <<syncVars, propVars, model_call, procVars, links, gateway>>

ScoredLists ==
    {<<sl>> : sl \in Urls \X Scores} \cup
    {<<a, b>> : a \in {"https://arxiv.org/abs/2401.00001"} \X Scores,
                b \in {"https://click.example.com/t/1"} \X Scores}

\* -------------------------------------------------------------- proposals
\* `EmailClassification.category.in_([...])`
ArchiveCategories == {"noise", "transactional", "notification", "marketing"}
\* `if archivable_count < 5:`
ArchiveThreshold == 5

\* A kind of message: its flags and the categories of its classification rows.
KindOf(k) ==
    CASE k = "noise"     -> [is_read |-> TRUE, old |-> TRUE, cats |-> <<"noise">>]
      [] k = "marketing" -> [is_read |-> TRUE, old |-> TRUE, cats |-> <<"marketing">>]
      [] k = "noise2"    -> [is_read |-> TRUE, old |-> TRUE, cats |-> <<"noise", "noise">>]
      [] OTHER           -> [is_read |-> FALSE, old |-> TRUE, cats |-> <<"noise">>]

RECURSIVE SumOver(_, _)
SumOver(f, S) ==
    IF S = {} THEN 0
    ELSE LET x == CHOOSE y \in S : TRUE IN f[x] + SumOver(f, S \ {x})

MsgCount == SumOver(msgs, MsgKinds)

\* rows of emails JOIN email_classifications that pass the filter, for one
\* message of kind k and category c
JoinRowsOf(k, c) ==
    IF KindOf(k).is_read /\ KindOf(k).old
    THEN Cardinality({j \in 1..Len(KindOf(k).cats) : KindOf(k).cats[j] = c})
    ELSE 0

\* `select(EmailClassification.category, func.count(Email.id)) ... group_by`
CategoryCount(c) == SumOver([k \in MsgKinds |-> msgs[k] * JoinRowsOf(k, c)], MsgKinds)
Breakdown == [c \in {d \in ArchiveCategories : CategoryCount(d) > 0} |-> CategoryCount(c)]

\* `select(func.count(Email.id)).join(EmailClassification, ...)`
ArchivableCount == SumOver([c \in ArchiveCategories |-> CategoryCount(c)], ArchiveCategories)

\* sync_folder stores a message and process_unclassified classifies it
StoreAndProcess(k) ==
    /\ k # "noise2"
    /\ MsgCount < MaxMsgs
    /\ msgs' = [msgs EXCEPT ![k] = @ + 1]
    /\ UNCHANGED <<syncVars, linkVars, model_call, procVars, senders, proposals, items, approving, counted, reply>>

\* process_email_by_id on a message that has a classification: a second row
Reprocess ==
    /\ msgs["noise"] > 0
    /\ msgs' = [msgs EXCEPT !["noise"] = @ - 1, !["noise2"] = @ + 1]
    /\ UNCHANGED <<syncVars, linkVars, model_call, procVars, senders, proposals, items, approving, counted, reply>>

\* generate_archive_proposals, the count query and the test on it
GenerateArchiveCount ==
    /\ counted = -1
    /\ Len(proposals) < MaxProposals
    /\ IF ArchivableCount < ArchiveThreshold
       THEN /\ reply' = [op |-> "generate_archive", id |-> 0, result |-> "none"]
            /\ UNCHANGED counted
       ELSE /\ counted' = ArchivableCount
            /\ UNCHANGED reply
    /\ UNCHANGED <<syncVars, linkVars, model_call, procVars, msgs, senders, proposals, items, approving>>

\* generate_archive_proposals, the breakdown query and the insert
GenerateArchiveInsert ==
    /\ counted # -1
    /\ proposals' = Append(proposals,
                       [proposal_type |-> "archive", status |-> "pending",
                        affected_count |-> counted, breakdown |-> Breakdown,
                        reviewed_at |-> 0])
    /\ counted' = -1
    /\ reply' = [op |-> "generate_archive", id |-> Len(proposals) + 1, result |-> "created"]
    /\ UNCHANGED <<syncVars, linkVars, model_call, procVars, msgs, senders, items, approving>>

\* `if proposal.status != "pending":`
NotPendingOff(status) == FALSE
NotPending(status) == status # "pending"

\* approve_proposal up to its commit: `await db.get(...)` and the two tests
ApproveRead(p) ==
    /\ approving = 0
    /\ IF p > Len(proposals)
       THEN /\ reply' = [op |-> "approve", id |-> p, result |-> "not found"]
            /\ UNCHANGED approving
       ELSE IF NotPending(proposals[p].status)
       THEN /\ reply' = [op |-> "approve", id |-> p, result |-> "error"]
            /\ UNCHANGED approving
       ELSE /\ proposals[p].reviewed_at < MaxReviews
            /\ approving' = p
            /\ UNCHANGED reply
    /\ UNCHANGED <<syncVars, linkVars, model_call, procVars, msgs, senders, proposals, items, counted>>

\* approve_proposal: `await db.commit()`
ApproveCommit ==
    /\ approving # 0
    /\ proposals' = [proposals EXCEPT ![approving].status = "approved",
                                      ![approving].reviewed_at = @ + 1]
    /\ reply' = [op |-> "approve", id |-> approving, result |-> "approved"]
    /\ approving' = 0
    /\ UNCHANGED <<syncVars, linkVars, model_call, procVars, msgs, senders, items, counted>>

\* reject_proposal
RejectProposal(p) ==
    /\ IF p > Len(proposals)
       THEN /\ reply' = [op |-> "reject", id |-> p, result |-> "not found"]
            /\ UNCHANGED proposals
       ELSE /\ proposals[p].reviewed_at < MaxReviews
            /\ proposals' = [proposals EXCEPT ![p].status = "rejected",
                                              ![p].reviewed_at = @ + 1]
            /\ reply' = [op |-> "reject", id |-> p, result |-> "rejected"]
    /\ UNCHANGED <<syncVars, linkVars, model_call, procVars, msgs, senders, items, approving, counted>>

NextProposals ==
    \/ \E k \in MsgKinds : StoreAndProcess(k)
    \/ Reprocess
    \/ GenerateArchiveCount
    \/ GenerateArchiveInsert
    \/ \E p \in 1..MaxProposals : ApproveRead(p)
    \/ ApproveCommit
    \/ \E p \in 1..MaxProposals : RejectProposal(p)

SpecProposals == Init /\ [][NextProposals]_vars

\* The kinds of sender profile _update_sender_profile has built.
SenderKinds == {"news_low", "mkt_none", "news_high", "news_few", "personal_low"}

\* relevance in tenths, -1 for NULL
SenderOf(k) ==
    CASE k = "news_low"  -> [sender_type |-> "newsletter", total_emails |-> 3, relevance_score |-> 1]
      [] k = "mkt_none"  -> [sender_type |-> "marketing", total_emails |-> 4, relevance_score |-> -1]
      [] k = "news_high" -> [sender_type |-> "newsletter", total_emails |-> 3, relevance_score |-> 8]
      [] k = "news_few"  -> [sender_type |-> "newsletter", total_emails |-> 2, relevance_score |-> 1]
      [] OTHER           -> [sender_type |-> "personal", total_emails |-> 5, relevance_score |-> 1]

\* processing has brought the profile of a sender to one of the kinds
ProfileSender(k) ==
    /\ k \notin senders
    /\ senders' = senders \cup {k}
    /\ UNCHANGED <<syncVars, linkVars, model_call, procVars, msgs, proposals, items, approving, counted, reply>>

\* `SenderProfile.total_emails >= 3`
UnsubscribeMinEmails == 3
\* `SenderProfile.relevance_score < 0.3`, in tenths
UnsubscribeBelow == 3

\* the senders the unsubscribe generator selects
LowEngagement ==
    {k \in senders :
        /\ SenderOf(k).sender_type \in {"newsletter", "marketing"}
        /\ SenderOf(k).total_emails >= UnsubscribeMinEmails
        /\ \/ SenderOf(k).relevance_score = -1
           \/ SenderOf(k).relevance_score < UnsubscribeBelow}

\* `f"relevance: {sender.relevance_score:.2f if sender.relevance_score else 'N/A'}, "`:
\* everything after the colon is the format specification, which no float
\* accepts (ValueError) and None does not take (TypeError)
ReasonFormats(relevance) == FALSE

\* generate_unsubscribe_proposals; what it raises is caught by
\* generate_all_proposals and the session is left without commit
GenerateUnsubscribe ==
    /\ IF LowEngagement = {}
       THEN /\ reply' = [op |-> "generate_unsubscribe", id |-> 0, result |-> "none"]
            /\ UNCHANGED <<proposals, items>>
       ELSE IF \A k \in LowEngagement : ReasonFormats(SenderOf(k).relevance_score)
       THEN /\ Len(proposals) < MaxProposals
            /\ proposals' = Append(proposals,
                   [proposal_type |-> "unsubscribe", status |-> "pending",
                    affected_count |->
                        SumOver([k \in LowEngagement |-> SenderOf(k).total_emails],
                                LowEngagement),
                    breakdown |-> <<>>, reviewed_at |-> 0])
            /\ items' = items \cup {[proposal_id |-> Len(proposals) + 1, ref |-> k,
                                     action |-> "unsubscribe"] : k \in LowEngagement}
            /\ reply' = [op |-> "generate_unsubscribe", id |-> Len(proposals) + 1,
                         result |-> "created"]
       ELSE /\ reply' = [op |-> "generate_unsubscribe", id |-> 0, result |-> "raised"]
            /\ UNCHANGED <<proposals, items>>
    /\ UNCHANGED <<syncVars, linkVars, model_call, procVars, msgs, senders, approving, counted>>

\* `ExtractedLink.relevance_score >= 0.6`, in tenths
ExtractionMinRelevance == 6
\* `.limit(50)`
ExtractionLimit == 50

\* the links the extraction generator selects
HighValueLinks ==
    LET sel == ByScoreDesc(PendingAtLeast(ExtractionMinRelevance))
    IN  SubSeq(sel, 1, IF Len(sel) < ExtractionLimit THEN Len(sel) ELSE ExtractionLimit)

\* `proposal_id=proposal.id` after `db.add(proposal)` with no flush: the
\* primary key is not assigned yet and reads as None (0)
IdBeforeFlush(id) == 0

\* proposal_items.proposal_id is NOT NULL
CommitAccepts(rows) == \A it \in rows : it.proposal_id # 0

\* generate_extraction_proposals; an IntegrityError at the commit is caught
\* by generate_all_proposals and the transaction is rolled back
GenerateExtraction ==
    /\ IF HighValueLinks = <<>>
       THEN /\ reply' = [op |-> "generate_extraction", id |-> 0, result |-> "none"]
            /\ UNCHANGED <<proposals, items>>
       ELSE LET new == {[proposal_id |-> IdBeforeFlush(Len(proposals) + 1),
                         ref |-> HighValueLinks[j], action |-> "extract"] :
                            j \in 1..Len(HighValueLinks)}
            IN  IF CommitAccepts(new)
                THEN /\ Len(proposals) < MaxProposals
                     /\ proposals' = Append(proposals,
                            [proposal_type |-> "extraction", status |-> "pending",
                             affected_count |-> Len(HighValueLinks),
                             breakdown |-> <<>>, reviewed_at |-> 0])
                     /\ items' = items \cup new
                     /\ reply' = [op |-> "generate_extraction", id |-> Len(proposals) + 1,
                                  result |-> "created"]
                ELSE /\ reply' = [op |-> "generate_extraction", id |-> 0, result |-> "raised"]
                     /\ UNCHANGED <<proposals, items>>
    /\ UNCHANGED <<syncVars, linkVars, model_call, procVars, msgs, senders, approving, counted>>

NextGenerators ==
    \/ \E k \in SenderKinds : ProfileSender(k)
    \/ \E scored \in ScoredLists : ProcessSingle(scored)
    \/ GenerateUnsubscribe
    \/ GenerateExtraction

SpecGenerators == Init /\ [][NextGenerators]_vars

NextLinks ==
    \/ \E scored \in ScoredLists : ProcessSingle(scored)
    \/ \E m \in MinRelChoices, n \in 1..MaxLinks : QueueLinksForExtraction(m, n)
    \/ \E i \in 1..MaxLinks : MarkExtracted(i)
    \/ \E i \in 1..MaxLinks, st \in StatusNames : UpdateLinkStatus(i, st)
    \/ \E m \in MinRelChoices : ScanAndClassifyLinks(m)

NextSync ==
    \/ \E f \in Folders : Arrival(f)
    \/ Crash
    \/ ConnectImap
    \/ DisconnectImap
    \/ \E t \in Tasks, f \in Folders, lim \in LimitChoices : StartCall(t, f, lim)
    \/ \E t \in Tasks : Resume(t)
    \/ \E t \in Tasks, o \in {"ok", "no", "exc"} : Select(t, o)
    \/ \E t \in Tasks, ok \in BOOLEAN : ReadState(t, ok)
    \/ \E t \in Tasks, o \in {"ok", "no", "exc"} : Search(t, o)
    \/ \E t \in Tasks, o \in {"ok", "fetchfail", "dberr", "raise"} : Item(t, o)
    \/ \E t \in Tasks, ok \in BOOLEAN : UpdateState(t, ok)

SpecSync == Init /\ [][NextSync]_vars

\* the synchronisation with cancellation of the tasks that run it
NextSyncCancel ==
    \/ NextSync
    \/ \E t \in Tasks : CancelTask(t)

SpecSyncCancel == Init /\ [][NextSyncCancel]_vars

\* the synchronisation with the other users of the shared connection
NextShared ==
    \/ NextSync
    \/ \E f \in Folders, ok \in BOOLEAN : GetFolderCount(f, ok)
    \/ ListFolders

SpecShared == Init /\ [][NextShared]_vars

\* periodic_sync alone with a mail server whose connection can break; the
\* server itself answers every command it receives
NextReconnect ==
    \/ \E f \in Folders : Arrival(f)
    \/ ConnectionLost
    \/ \E f \in Folders, lim \in LimitChoices : StartCall("periodic", f, lim)
    \/ Resume("periodic")
    \/ \E o \in {"ok", "no", "exc"} : Select("periodic", o)
    \/ \E ok \in BOOLEAN : ReadState("periodic", ok)
    \/ \E o \in {"ok", "no", "exc"} : Search("periodic", o)
    \/ \E o \in {"ok", "fetchfail", "dberr", "raise"} : Item("periodic", o)
    \/ \E ok \in BOOLEAN : UpdateState("periodic", ok)

\* The task is scheduled, and a command that the server can answer OK is
\* eventually answered OK.
FairReconnect ==
    /\ WF_vars(\E f \in Folders, lim \in LimitChoices : StartCall("periodic", f, lim))
    /\ WF_vars(Resume("periodic"))
    /\ WF_vars(\E o \in {"ok", "no", "exc"} : Select("periodic", o))
    /\ WF_vars(\E ok \in BOOLEAN : ReadState("periodic", ok))
    /\ WF_vars(\E o \in {"ok", "no", "exc"} : Search("periodic", o))
    /\ WF_vars(\E o \in {"ok", "fetchfail", "dberr", "raise"} : Item("periodic", o))
    /\ WF_vars(\E ok \in BOOLEAN : UpdateState("periodic", ok))
    /\ SF_vars(Select("periodic", "ok"))
    /\ SF_vars(ReadState("periodic", TRUE))
    /\ SF_vars(Search("periodic", "ok"))
    /\ SF_vars(Item("periodic", "ok"))
    /\ SF_vars(UpdateState("periodic", TRUE))

SpecReconnect == Init /\ [][NextReconnect]_vars /\ FairReconnect

\* periodic_sync from the start of the application to its shutdown
NextPeriodic ==
    \/ \E f \in Folders : Arrival(f)
    \/ PeriodicWake
    \/ \E ok \in BOOLEAN : PeriodicRound(ok)
    \/ Resume("periodic")
    \/ \E o \in {"ok", "no", "exc"} : Select("periodic", o)
    \/ \E ok \in BOOLEAN : ReadState("periodic", ok)
    \/ \E o \in {"ok", "no", "exc"} : Search("periodic", o)
    \/ \E o \in {"ok", "fetchfail", "dberr", "raise"} : Item("periodic", o)
    \/ \E ok \in BOOLEAN : UpdateState("periodic", ok)
    \/ RoundRaises
    \/ PauseOver
    \/ ShutdownCancel
    \/ ShutdownDisconnect

\* The event loop runs the task and the shutdown: a sleep ends, an awaited
\* command is answered or fails, and a coroutine that can go on does.
FairPeriodic ==
    /\ WF_vars(PeriodicWake)
    /\ WF_vars(\E ok \in BOOLEAN : PeriodicRound(ok))
    /\ WF_vars(Resume("periodic"))
    /\ WF_vars(\E o \in {"ok", "no", "exc"} : Select("periodic", o))
    /\ WF_vars(\E ok \in BOOLEAN : ReadState("periodic", ok))
    /\ WF_vars(\E o \in {"ok", "no", "exc"} : Search("periodic", o))
    /\ WF_vars(\E o \in {"ok", "fetchfail", "dberr", "raise"} : Item("periodic", o))
    /\ WF_vars(\E ok \in BOOLEAN : UpdateState("periodic", ok))
    /\ WF_vars(PauseOver)
    /\ WF_vars(ShutdownDisconnect)

SpecPeriodic == Init /\ [][NextPeriodic]_vars /\ FairPeriodic

\* the same synchronisation over mailboxes whose messages carry no Message-ID header
NextHeaderless ==
    \/ \E f \in Folders : ArrivalHeaderless(f)
    \/ Crash
    \/ ConnectImap
    \/ DisconnectImap
    \/ \E t \in Tasks, f \in Folders, lim \in LimitChoices : StartCall(t, f, lim)
    \/ \E t \in Tasks : Resume(t)
    \/ \E t \in Tasks, o \in {"ok", "no", "exc"} : Select(t, o)
    \/ \E t \in Tasks, ok \in BOOLEAN : ReadState(t, ok)
    \/ \E t \in Tasks, o \in {"ok", "no", "exc"} : Search(t, o)
    \/ \E t \in Tasks, o \in {"ok", "fetchfail", "dberr", "raise"} : Item(t, o)
    \/ \E t \in Tasks, ok \in BOOLEAN : UpdateState(t, ok)

SpecHeaderless == Init /\ [][NextHeaderless]_vars

SpecLinks == Init /\ [][NextLinks]_vars

\* min_relevance and limit_per_type arguments of a run
RunMinRelChoices == {5, 8}
LimitPerTypeChoices == {1, 2}

NextExtract ==
    \/ \E scored \in ScoredLists : ProcessSingle(scored)
    \/ \E m \in RunMinRelChoices, n \in LimitPerTypeChoices, dry \in BOOLEAN : RunStart(m, n, dry)
    \/ RunScan
    \/ RunQuery
    \/ \E a \in {"dispatched", "error"} : RunDispatch(a)
    \/ \E ok \in BOOLEAN : RunUpdate(ok)
    \/ \E ok \in BOOLEAN : RunCommit(ok)
    \/ RunReturn
    \/ RunCrash

SpecExtract == Init /\ [][NextExtract]_vars
\* the min_relevance the repeated runs are called with
RepeatMinRel == CHOOSE m \in RunMinRelChoices : \A x \in RunMinRelChoices : m <= x

\* the group a live run is about to post has a configured extractor
PostsToGateway ==
    /\ run.pc = "dispatch"
    /\ Extractor(run.groups[run.k].type) # "none"

\* Messages are processed while live runs with one min_relevance are called
\* again and again; a run may fail at the gateway, at the update, at the
\* commit, or die with the process.
\* the links of the messages processed meanwhile: one of a type with an
\* extractor, scored at min_relevance, and one of a type without an extractor
\* that the run lists before it
RepeatLists ==
    {<<sl>> : sl \in {<<"https://arxiv.org/abs/2401.00001", RepeatMinRel>>,
                      <<"https://youtube.com/watch?v=abc", 8>>}}

NextRepeat ==
    \/ \E scored \in RepeatLists : ProcessSingle(scored)
    \/ \E n \in LimitPerTypeChoices : RunStart(RepeatMinRel, n, FALSE)
    \/ RunScan
    \/ RunQuery
    \/ \E a \in {"dispatched", "error"} : RunDispatch(a)
    \/ \E ok \in BOOLEAN : RunUpdate(ok)
    \/ \E ok \in BOOLEAN : RunCommit(ok)
    \/ RunReturn
    \/ RunCrash

\* a step in which a run fails: the gateway refuses the batch, the update or
\* the commit raises, or the process dies
RunFails ==
    \/ PostsToGateway /\ RunDispatch("error")
    \/ RunUpdate(FALSE)
    \/ RunCommit(FALSE)
    \/ RunCrash

\* The caller calls again after a run has ended, a run takes its next step,
\* and from some time on the gateway accepts every batch and no run fails.
FairRepeat ==
    /\ WF_vars(\E n \in LimitPerTypeChoices : RunStart(RepeatMinRel, n, FALSE))
    /\ WF_vars(RunScan)
    /\ WF_vars(RunQuery)
    /\ WF_vars(RunDispatch("dispatched"))
    /\ WF_vars(RunUpdate(TRUE))
    /\ WF_vars(RunCommit(TRUE))
    /\ WF_vars(RunReturn)
    /\ <>[][~RunFails]_vars

SpecRepeat == Init /\ [][NextRepeat]_vars /\ FairRepeat
SpecClassifier == Init /\ [][NextClassifier]_vars
SpecProcess == Init /\ [][NextProcess]_vars
SpecProcessTwice == Init /\ [][NextProcessTwice]_vars
SpecProcessById == Init /\ [][NextProcessById]_vars
SpecSender == Init /\ [][NextSender]_vars
\* process_unclassified is called again and again, and every call runs to its end
SpecParser == Init /\ [][NextParser]_vars

SpecProcessFair ==
    /\ SpecProcess
    /\ WF_vars(\E limit \in ProcLimits : ProcessUnclassifiedStart(limit))
    /\ WF_vars(ProcessUnclassifiedItem)
    /\ WF_vars(ProcessUnclassifiedReturn)

\* ------------------------------------------------------------- properties
\* A step in which task t finishes one turn of the item loop.
ItemStep(t) ==
    /\ task[t].pc = "item"
    /\ task'[t].pc \in {"item", "update", "ret"}
    /\ task'[t].uids = Tail(task[t].uids)

\* A step in which task t calls sync_folder.
CallStep(t) ==
    /\ task[t].pc \in {"idle", "ret"}
    /\ task'[t].pc \in {"select", "ret"}

\* The UIDs of folder f above its persisted cursor.
AboveCursor(f) == {u \in 1..Len(mailbox[f]) : u > CursorOf(f).last_uid}

\* The k lowest members of S.
Lowest(k, S) == {u \in S : Cardinality({v \in S : v < u}) < k}

\* C1: for every folder the persisted last_uid never decreases, whatever the
\* calls do: items that fail, calls that abort on select or search, crashes.
CursorNeverDecreases ==
    [][\A f \in Folders : CursorOf(f)'.last_uid >= CursorOf(f).last_uid]_vars

\* C1, the case: a call in which an item failed has returned and has moved
\* the cursor of its folder.
CursorMovedDespiteFailure ==
    \E t \in Tasks :
        /\ task[t].pc = "ret"
        /\ task[t].failed # {}
        /\ CursorOf(task[t].folder).last_uid > task[t].pre.last_uid

\* C2: the persisted cursor of a folder is never at or above the UID of a
\* message of the folder that is not in the emails table (neither stored
\* nor found there as a duplicate).
CursorBehindUnstored ==
    \A f \in Folders : \A u \in 1..Len(mailbox[f]) :
        u <= CursorOf(f).last_uid => ParseMessageId(mailbox[f][u], u) \in StoredIds

\* C3: when a call returns, the cursor of its folder is below every UID
\* whose fetch failed during the call.
CursorBelowFailedFetch ==
    \A t \in Tasks :
        task[t].pc = "ret" =>
            \A u \in task[t].failed : CursorOf(task[t].folder).last_uid < u

\* C4 as stated: a call on a folder whose mailbox is as the previous call
\* left it stores nothing and leaves the cursor row as it was.
ResyncChangesNothing ==
    \A t \in Tasks :
        (task[t].pc = "ret" /\ task[t].resync) =>
            /\ task[t].res.new_emails = 0
            /\ Cardinality(emails) = task[t].preCount
            /\ CursorOf(task[t].folder) = task[t].pre

\* C4 amended: the same, when the cursor the call found was already at or
\* above the highest UID of the folder.
ResyncAtTopChangesNothing ==
    \A t \in Tasks :
        (/\ task[t].pc = "ret"
         /\ task[t].resync
         /\ task[t].pre.last_uid >= Len(mailbox[task[t].folder])) =>
            /\ task[t].res.new_emails = 0
            /\ Cardinality(emails) = task[t].preCount
            /\ CursorOf(task[t].folder) = task[t].pre

\* C4, the case: a call on an unchanged, fully synced, non-empty folder has
\* gone through its search and returned.
ResyncAtTopReturned ==
    \E t \in Tasks :
        /\ task[t].pc = "ret"
        /\ task[t].resync
        /\ Len(mailbox[task[t].folder]) > 0
        /\ task[t].pre.last_uid >= Len(mailbox[task[t].folder])
        /\ task[t].res.message = "Up to date"

\* C5: the emails table never holds two rows with one message_id, no step
\* changes or removes a row, and an item whose message_id is already there
\* and whose store ran adds one to skipped and nothing to new_emails or
\* errors.
DuplicateStoreIsSkip ==
    [][/\ \A r \in emails : r \in emails'
       /\ \A r1, r2 \in emails' : r1.message_id = r2.message_id => r1 = r2
       /\ \A t \in Tasks :
            (/\ ItemStep(t)
             /\ task'[t].last \in {"new", "dup"}
             /\ ParseMessageId(mailbox[client][Head(task[t].uids)], Head(task[t].uids))
                    \in StoredIds) =>
                /\ emails' = emails
                /\ task'[t].res.skipped = task[t].res.skipped + 1
                /\ task'[t].res.new_emails = task[t].res.new_emails
                /\ task'[t].res.errors = task[t].res.errors]_vars

\* C5, the case: a message stored from one folder was seen again under
\* another folder and counted as skipped.
DuplicateWasSkipped ==
    \E t \in Tasks : \E r \in emails :
        /\ task[t].last = "dup"
        /\ task[t].res.skipped > 0
        /\ r.folder # task[t].folder
        /\ r.message_id = <<HeaderOf(task[t].folder, 1), 0>>

\* C6: never two calls past the in-flight check, and a call made while
\* another has not returned returns at once with 'already in progress',
\* leaving cursors and messages alone.
OneSyncAtATime ==
    [][/\ Cardinality({t \in Tasks : InCall(t)'}) <= 1
       /\ \A t \in Tasks :
            (CallStep(t) /\ \E o \in Tasks \ {t} : InCall(o)) =>
                /\ task'[t].pc = "ret"
                /\ task'[t].res.error = "Sync already in progress"
                /\ UNCHANGED <<sync_state, emails, mailbox>>]_vars

\* C6, the case: one call is in flight and the other task's call was
\* rejected.
SecondCallRejected ==
    \E t \in Tasks : \E o \in Tasks \ {t} :
        /\ InCall(o)
        /\ task[t].pc = "ret"
        /\ task[t].res.error = "Sync already in progress"

\* C7: a select or search that answers non-OK or raises ends the call with
\* an error in the result, no message stored and the cursor of the folder
\* as the call found it.
SelectSearchFailureAborts ==
    [][\A t \in Tasks :
         (\/ Select(t, "no") \/ Select(t, "exc")
          \/ Search(t, "no") \/ Search(t, "exc")) =>
            /\ task'[t].pc = "ret"
            /\ task'[t].res.error # ""
            /\ task'[t].res.new_emails = 0
            /\ emails' = emails
            /\ Cardinality(emails') = task[t].preCount
            /\ CursorOf(task[t].folder)' = task[t].pre]_vars

\* C7, the case: a call on a folder already synced up to some UID has
\* returned after its search failed.
SearchFailedAfterProgress ==
    \E t \in Tasks :
        /\ task[t].pc = "ret"
        /\ task[t].res.error \in {"Search failed", "exception:search"}
        /\ task[t].pre.last_uid > 0

\* C8: every item whose fetch, parse or store fails adds one to errors.
FailedItemCountsAsError ==
    [][\A t \in Tasks :
         (ItemStep(t) /\ task'[t].last \in {"fetchfail", "dberr", "raise"}) =>
            task'[t].res.errors = task[t].res.errors + 1]_vars

\* C9: with a limit below the number of UIDs above the cursor, the batch is
\* the limit lowest of them, in whatever order the server lists them.
LimitKeepsLowest ==
    [][\A t \in Tasks :
         (/\ task[t].pc = "search"
          /\ task'[t].pc = "item"
          /\ task[t].limit # 0
          /\ task[t].limit < Cardinality(AboveCursor(task[t].folder))) =>
            Range(task'[t].uids) = Lowest(task[t].limit, AboveCursor(task[t].folder))]_vars

\* C10: a link the orchestrator persists with a relevance score below 0.5
\* starts as skipped, and no step leaves such a link queued.
LowScoreNeverQueued ==
    [][\A i \in 1..Len(links') :
         links'[i].relevance_score < PendingThreshold =>
            /\ i > Len(links) => links'[i].pipeline_status = "skipped"
            /\ links'[i].pipeline_status # "queued"]_vars

\* C11: the pipeline status of a link only moves pending -> queued ->
\* extracted or pending -> skipped; skipped and extracted are terminal.
ForwardStatus(a, b) ==
    \/ a = b
    \/ a = "pending" /\ b \in {"queued", "skipped"}
    \/ a = "queued" /\ b = "extracted"

StatusOnlyMovesForward ==
    [][\A i \in 1..Len(links) :
         ForwardStatus(links[i].pipeline_status, links'[i].pipeline_status)]_vars

\* C12: when a live run returns its result, the links of every group whose
\* dispatch answered dispatched are queued and the group is reported under
\* dispatched; the links of a group answered 'no extractor' or with an
\* error are pending as before the run, and the group is reported under
\* skipped or errors.
RunOutcomePerGroup ==
    (run.pc = "done" /\ ~run.dry) =>
        \A k \in 1..Len(run.groups) :
            LET g == run.groups[k]
                st == run.results[k]
            IN  /\ st = "dispatched" =>
                      /\ \A i \in Range(g.ids) : links[i].pipeline_status = "queued"
                      /\ g.type \in run.dispatched
                /\ st = "skipped" =>
                      /\ \A i \in Range(g.ids) : links[i].pipeline_status = "pending"
                      /\ g.type \in run.skipped \ run.dispatched
                /\ st = "error" =>
                      /\ \A i \in Range(g.ids) : links[i].pipeline_status = "pending"
                      /\ g.type \in run.errors \ run.dispatched

\* C12, the case: a live run with two groups has returned, one dispatched
\* and one without extractor.
RunWithMixedOutcome ==
    /\ run.pc = "done"
    /\ ~run.dry
    /\ Len(run.groups) = 2
    /\ "dispatched" \in Range(run.results)
    /\ "skipped" \in Range(run.results)

\* C13: every step of a dry run leaves the status of every link and the
\* gateway alone, and its report lists the groups and URL batches a live
\* run would dispatch from the same table.
DryRunChangesNothing ==
    [][(run.dry /\ run'.pc # run.pc) =>
          /\ \A i \in 1..Len(links) :
                links'[i].pipeline_status = links[i].pipeline_status
          /\ gateway' = gateway
          /\ run.pc = "query" =>
                run'.report =
                    {[type |-> g.type, count |-> Len(g.ids),
                      urls |-> [j \in 1..Len(g.ids) |-> links[g.ids[j]].url]] :
                        g \in Range(Groups(run.min_rel, run.lim))}]_vars

\* C14: after a classify pass, a second pass with the same arguments leaves
\* the status and the content type of every link as the first left them.
ScanTwiceIsScanOnce ==
    [][\A m \in MinRelChoices :
         ScanAndClassifyLinks(m) =>
            \A i \in 1..Len(links') :
                /\ ScanTable(links', m)[i].pipeline_status = links'[i].pipeline_status
                /\ ScanTable(links', m)[i].link_type = links'[i].link_type]_vars

\* C14, the case: a pass has skipped a junk link and typed another link
\* that stays pending.
ScanSkippedJunkKeptOther ==
    \E i, j \in 1..Len(links) :
        /\ links[i].link_type = "junk" /\ links[i].pipeline_status = "skipped"
        /\ links[j].link_type = "arxiv" /\ links[j].pipeline_status = "pending"

\* C15: an approve_proposal call that finds the proposal not pending
\* returns an error and writes nothing; one that finds it pending sets the
\* status to approved and touches no other proposal.
ApproveOnlyPending ==
    [][/\ \A p \in 1..Len(proposals) :
            ApproveRead(p) =>
                /\ proposals' = proposals
                /\ IF proposals[p].status # "pending"
                   THEN reply'.result = "error" /\ approving' = 0
                   ELSE approving' = p
       /\ ApproveCommit =>
            /\ proposals'[approving].status = "approved"
            /\ \A q \in 1..Len(proposals) : q # approving => proposals'[q] = proposals[q]]_vars

\* C15, the case: approve was called on an approved proposal and answered
\* with an error.
ApproveRefused ==
    \E p \in 1..Len(proposals) :
        /\ reply = [op |-> "approve", id |-> p, result |-> "error"]
        /\ proposals[p].status = "approved"
        /\ proposals[p].reviewed_at = 1

\* C16: reject_proposal on a proposal that is not pending returns an error,
\* and the status of a proposal that has left pending never changes.
DecisionIsFinal ==
    [][\A p \in 1..Len(proposals) :
         proposals[p].status # "pending" =>
            /\ proposals'[p].status = proposals[p].status
            /\ RejectProposal(p) => reply'.result = "error"]_vars

\* the messages that are read, older than 30 days and classified in one of
\* the archive categories
QualifyingMsgs ==
    SumOver([k \in MsgKinds |->
                IF /\ KindOf(k).is_read
                   /\ KindOf(k).old
                   /\ \E j \in 1..Len(KindOf(k).cats) : KindOf(k).cats[j] \in ArchiveCategories
                THEN msgs[k] ELSE 0], MsgKinds)

\* C17: generate_archive_proposals persists nothing when fewer than 5
\* messages qualify; with 5 or more it persists one pending proposal whose
\* affected_count is the number of qualifying messages and whose breakdown
\* sums to affected_count.
ArchiveProposalAccurate ==
    [][/\ GenerateArchiveCount =>
            IF QualifyingMsgs < 5 THEN counted' = -1 /\ reply'.result = "none"
            ELSE counted' # -1
       /\ GenerateArchiveInsert =>
            LET new == proposals'[Len(proposals')]
            IN  /\ Len(proposals') = Len(proposals) + 1
                /\ new.status = "pending"
                /\ new.affected_count = QualifyingMsgs
                /\ SumOver(new.breakdown, DOMAIN new.breakdown) = new.affected_count]_vars

\* C18: generate_unsubscribe_proposals persists nothing when no sender
\* qualifies; when some do it persists one pending proposal whose
\* affected_count is the sum of their total_emails, with one item per
\* qualifying sender.
UnsubscribeProposalPersisted ==
    [][GenerateUnsubscribe =>
          IF LowEngagement = {}
          THEN proposals' = proposals /\ items' = items
          ELSE LET new == proposals'[Len(proposals')]
               IN  /\ Len(proposals') = Len(proposals) + 1
                   /\ new.proposal_type = "unsubscribe"
                   /\ new.status = "pending"
                   /\ new.affected_count =
                        SumOver([k \in LowEngagement |-> SenderOf(k).total_emails],
                                LowEngagement)
                   /\ {it.ref : it \in items' \ items} = LowEngagement
                   /\ Cardinality(items' \ items) = Cardinality(LowEngagement)]_vars

\* C19: generate_extraction_proposals persists nothing when no pending link
\* has relevance 0.6 or more; when some have it persists one pending
\* proposal with one item per selected link, each attached to the proposal.
ExtractionProposalPersisted ==
    [][GenerateExtraction =>
          IF PendingAtLeast(ExtractionMinRelevance) = {}
          THEN proposals' = proposals /\ items' = items
          ELSE LET new == proposals'[Len(proposals')]
               IN  /\ Len(proposals') = Len(proposals) + 1
                   /\ new.proposal_type = "extraction"
                   /\ new.status = "pending"
                   /\ {it.ref : it \in items' \ items} = Range(HighValueLinks)
                   /\ \A it \in items' \ items : it.proposal_id = Len(proposals')]_vars

\* What C20 calls a failure of the model call.  A reply has the wrong shape
\* when it is not a JSON object, or when a key that is present holds a value
\* of another JSON type than the prompt asks for.
IsString(v) == v.t \in {"absent", "str"}
IsNumber(v) == v.t \in {"absent", "num"}
IsList(v) == v.t \in {"absent", "list"}
WrongShapeItem(item) ==
    \/ item.k # "object"
    \/ ~IsString(item.url) \/ ~IsNumber(item.relevance_score) \/ ~IsString(item.link_type)
WrongShape(body) ==
    \/ body.k = "array"
    \/ /\ body.k = "object"
       /\ \/ ~IsString(body.category) \/ ~IsNumber(body.confidence)
          \/ ~IsList(body.topics) \/ ~IsNumber(body.relevance_score)
          \/ body.scored_links.t = "null"
          \/ \E i \in 1..Len(body.scored_links.items) :
                WrongShapeItem(body.scored_links.items[i])
NonJson(text) == text.body.k = "garbage"
ModelCallFailed(answer) ==
    \/ answer.outcome # "ok"
    \/ answer.text.empty
    \/ NonJson(answer.text)
    \/ WrongShape(answer.text.body)

\* C20: classify_email and score_links never raise, and when the model call
\* failed (timeout, transport error, empty reply, non-JSON reply, JSON of the
\* wrong shape) the classification is noise with confidence 0 and no topics,
\* and the link scores are one entry per input URL with score 0 and type other.
ModelFailureGivesDefaults ==
    /\ model_call.raised = "none"
    /\ model_call.op = "classify_email" /\ ModelCallFailed(model_call.reply) =>
          /\ model_call.classification.category = "noise"
          /\ model_call.classification.confidence = 0
          /\ model_call.classification.topics = List(<<>>)
    /\ model_call.op = "score_links" /\ ModelCallFailed(model_call.reply) =>
          model_call.scores = DefaultScores(model_call.links)

\* C21: whatever the model replies, the list score_links returns holds each
\* input URL exactly once, and nothing else (one link row per extracted URL).
ScoreLinksEachUrlOnce ==
    model_call.op = "score_links" /\ model_call.raised = "none" =>
        /\ Len(model_call.scores) = Len(model_call.links)
        /\ \A k \in 1..Len(model_call.links) :
              Cardinality({i \in 1..Len(model_call.scores) :
                  model_call.scores[i].url = Str(model_call.links[k])}) = 1

\* C22: whatever the model replies, the category of the result classify_email
\* returns (the one _process_single persists) is one of the seven categories.
CategoryIsOneOfSeven ==
    model_call.op = "classify_email" /\ model_call.raised = "none" =>
        model_call.classification.category \in Categories

\* the message the loop of process_unclassified is at
CurrentMessage == batch.selected[batch.k]

\* C23: in process_unclassified every selected message adds one to processed
\* or to errors, and a message whose own processing has no fault is processed
\* whatever happened to the messages before it.
FailureIsIsolated ==
    [][ProcessUnclassifiedItem =>
          /\ batch'.processed + batch'.errors = batch.processed + batch.errors + 1
          /\ stored[CurrentMessage] = "plain" => batch'.processed = batch.processed + 1]_vars

\* C24: for every message the classification row, the link rows and the
\* sender update are persisted together or not at all.
StepIsAtomic ==
    \A m \in ProcMsgs :
        /\ tables.links[m] = (IF HasLinks(m) THEN tables.cls[m] ELSE 0)
        /\ tables.sender[m] = (IF HasFrom(m) THEN tables.cls[m] ELSE 0)

\* a batch committed one message and then failed on another after its
\* classification row was added; nothing of the failed one is persisted
FailedStepLeftNothing ==
    /\ batch.pc = "loop"
    /\ batch.processed > 0
    /\ \E i \in 1..(batch.k - 1) :
          /\ stored[batch.selected[i]] = "long_domain"
          /\ \A t \in ProcTables : tables[t][batch.selected[i]] = 0
          /\ \E j \in 1..(i - 1) : tables.cls[batch.selected[j]] > 0

AllClassified == \A m \in ProcMsgs : stored[m] # "absent" => tables.cls[m] > 0

\* C25: process_unclassified selects unclassified messages only, at most
\* `limit`, most recent first, never processes a classified message again,
\* and repeated calls eventually leave no stored message unclassified.
SelectsUnclassifiedUntilNoneLeft ==
    /\ [][\A limit \in ProcLimits : ProcessUnclassifiedStart(limit) =>
            /\ Len(batch'.selected) <= limit
            /\ \A i \in 1..Len(batch'.selected) :
                  /\ batch'.selected[i] \in Unclassified
                  /\ \A o \in Unclassified :
                        DateSent(o) > DateSent(batch'.selected[i]) =>
                            \E j \in 1..(i - 1) : batch'.selected[j] = o]_vars
    /\ [][ProcessUnclassifiedItem => tables.cls[CurrentMessage] = 0]_vars
    /\ <>[]AllClassified

SeenScores == {profile.scores[i] : i \in 1..Len(profile.scores)}
LowestSeen == FromTenths(CHOOSE x \in SeenScores : \A y \in SeenScores : x <= y)
HighestSeen == FromTenths(CHOOSE x \in SeenScores : \A y \in SeenScores : x >= y)
\* x * (1 + 2^-50), exactly
WithRounding(x) == [m |-> BigAdd(ShiftLeft(x.m, 50), x.m), e |-> x.e - 50]
\* n / 1000, exactly, for x * 1000 on the other side
Thousand(x) == [m |-> BigMul(x.m, NatBits(1000)), e |-> x.e]
Whole(n) == [m |-> NatBits(n), e |-> 0]
\* the profile's relevance is the update rule applied to the one before
FollowsUpdateRule(score) ==
    LET new == FromTenths(score)
        want == IF profile.total_emails = 0 THEN new
                ELSE FloatAdd(FloatMul(profile.relevance_score, FromTenths(8)),
                              FloatMul(new, FromTenths(2)))
    IN  FloatLeq(profile'.relevance_score, want) /\ FloatLeq(want, profile'.relevance_score)
\* 0.50 when written with two decimals
IsHalfToTwoDecimals(x) ==
    /\ FloatLeq(Whole(495), Thousand(x))
    /\ FloatLeq(Thousand(x), Whole(505)) /\ ~FloatLeq(Whole(505), Thousand(x))

\* C26, as stated: the rolling relevance is 0.8 * old + 0.2 * new (the new
\* score when there is none before), it is 0.50 after the scores 0.4 and 0.9,
\* and it always lies between the smallest and the largest score seen.
RollingRelevanceBetweenScores ==
    /\ [][\A score \in RelevanceChoices :
            UpdateSenderProfile(score) => FollowsUpdateRule(score)]_vars
    /\ [](profile.scores = <<4, 9>> => IsHalfToTwoDecimals(profile.relevance_score))
    /\ [](profile.total_emails > 0 =>
            /\ FloatLeq(LowestSeen, profile.relevance_score)
            /\ FloatLeq(profile.relevance_score, HighestSeen))

\* C26, amended: the same, with the rolling relevance between the smallest
\* and the largest score seen up to the rounding of the float arithmetic.
RollingRelevanceWithinRounding ==
    /\ [][\A score \in RelevanceChoices :
            UpdateSenderProfile(score) => FollowsUpdateRule(score)]_vars
    /\ [](profile.scores = <<4, 9>> => IsHalfToTwoDecimals(profile.relevance_score))
    /\ [](profile.total_emails > 0 =>
            /\ FloatLeq(LowestSeen, WithRounding(profile.relevance_score))
            /\ FloatLeq(profile.relevance_score, WithRounding(HighestSeen)))

\* a sender whose first message scored 0.4 and whose second scored 0.9
SenderScoredTwice == profile.scores = <<4, 9>> /\ profile.total_emails = 2

\* C27: a message without Message-ID header whose store ran, and which has no
\* row under its folder and UID yet, is stored as a row of its own, also when
\* a message of another folder has the same UID and no header either.
HeaderlessStoredSeparately ==
    [][\A t \in Tasks :
          (/\ ItemStep(t)
           /\ task'[t].last \in {"new", "dup"}
           /\ client = task[t].folder
           /\ mailbox[client][Head(task[t].uids)] = NoHeader
           /\ ~\E r \in emails : r.folder = task[t].folder /\ r.uid = Head(task[t].uids)) =>
              \E r \in emails' : r.folder = task[t].folder /\ r.uid = Head(task[t].uids)]_vars

\* the anchor targets of an HTML body, and its http(s) ones: the scheme of a
\* URL is compared without regard to case
AnchorTargets(html) == {Strip(html.value[i]) : i \in 1..Len(html.value)}
IsHttpUrl(url) == HrefIsHttp(StrLower(url))

\* the list is in strictly ascending order: sorted and without duplicates
StrictlySorted(list) == \A i \in 1..(Len(list) - 1) : StrLess(list[i], list[i + 1])

\* C28: extract_links returns the http(s) anchor targets of the HTML body
\* united with the http(s) URLs of the text body, without any URL that
\* contains a junk substring in any case, without duplicates and sorted; for
\* a body with the arXiv link, the GitHub link and the unsubscribe link it
\* returns exactly the first two.
ExtractLinksContract ==
    extraction.called =>
        LET found == {h \in AnchorTargets(extraction.html) : IsHttpUrl(h)}
                         \cup {RStrip(m, Trailing) :
                                  m \in FindIter(extraction.text.value, 1)}
            wanted == {u \in found : ~\E p \in JunkPatterns : Contains(StrLower(u), p)}
            got == {extraction.links[i] : i \in 1..Len(extraction.links)}
        IN  /\ got = wanted
            /\ StrictlySorted(extraction.links)
            /\ (/\ AnchorTargets(extraction.html) = {ArxivUrl, GithubUrl, UnsubscribeUrl}
                /\ TextUrls(extraction.text) = {}) =>
                    extraction.links = <<ArxivUrl, GithubUrl>>

\* C29: in a live run, once the dispatch of a group succeeded and its links
\* were set to queued, that status is durable whatever happens afterwards
\* while the run works on its later groups or before it ends (a dispatch
\* error, an exception in a status update, the death of the process): when
\* the writes of the run leave its transaction, those links are queued in the
\* table.  The failure of the final commit itself is left aside.
QueuedIsDurable ==
    [][~(run.pc = "commit" /\ run'.pc = "failed") =>
          \A i \in run.written \ run'.written : links'[i].pipeline_status = "queued"]_vars

\* the links a run with threshold min_rel may dispatch for content type ty:
\* pending, at or above the threshold, of that type
Candidates(ty, min_rel) ==
    {i \in PendingAtLeast(min_rel) : links[i].link_type = ty}

\* a step in which the run posts the batch of its current group to the gateway
PostsBatch ==
    /\ run.pc = "dispatch"
    /\ run'.results # run.results
    /\ Extractor(run.groups[run.k].type) # "none"

LatestIn(c) ==
    SumOver([k \in MsgKinds |->
                IF /\ KindOf(k).is_read
                   /\ KindOf(k).old
                   /\ KindOf(k).cats[Len(KindOf(k).cats)] = c
                THEN msgs[k] ELSE 0], MsgKinds)

\* C31: the archive generator counts each qualifying message once and by its
\* latest classification: the count it takes is the number of read, old
\* messages whose latest category is archivable, and each entry of the
\* breakdown is the number of those with that latest category, also when a
\* message has several classification rows.
ArchiveCountsEachMessageOnce ==
    [][/\ (GenerateArchiveCount /\ counted' # -1) =>
              counted' = SumOver([c \in ArchiveCategories |-> LatestIn(c)], ArchiveCategories)
       /\ GenerateArchiveInsert =>
              LET new == proposals'[Len(proposals')]
              IN  \A c \in DOMAIN new.breakdown : new.breakdown[c] = LatestIn(c)]_vars

\* a step in which a sync_folder call is made and rejected as already in progress
RejectedStep(t) ==
    /\ task[t].pc # "ret" \/ t = "periodic"
    /\ task'[t].pc = "ret"
    /\ task'[t].res.error = "Sync already in progress"
    /\ ~InCall(t)

\* a step in which task t makes a sync_folder call
MakesCall(t) ==
    /\ ~InCall(t)
    /\ task'[t] # task[t]
    /\ task'[t].pc \in {"select", "ret"}
    /\ task'[t].folder # "-"

\* C32: the in-flight flag is cleared on every exit path of a sync_folder call
\* that set it, and a rejected call neither sets nor clears it: whenever no
\* call is executing the flag is false, the flag is true while a call
\* executes, a rejected call leaves the flag as it was, and a call made while
\* no call executes is not rejected as already in progress.
FlagClearedOnEveryExit ==
    /\ []((\A t \in Tasks : ~InCall(t)) => ~syncing)
    /\ []((\E t \in Tasks : InCall(t)) => syncing)
    /\ [][\A t \in Tasks : RejectedStep(t) => syncing' = syncing]_vars
    /\ [][\A t \in Tasks :
            (MakesCall(t) /\ \A u \in Tasks : ~InCall(u)) =>
                task'[t].res.error # "Sync already in progress"]_vars

\* C32, the case: a call that had set the flag ended by an exception of its
\* search, and no call is executing.
CallEndedByException ==
    /\ \E t \in Tasks : task[t].pc = "ret" /\ task[t].res.error = "exception:search"
    /\ \A t \in Tasks : ~InCall(t)

\* C33: under every interleaving with the other operations on the shared
\* connection, a message that a sync_folder call on folder F stores with
\* folder F, or counts towards the cursor of F, was fetched while F was the
\* selected mailbox of the connection.
StoredFromSelectedFolder ==
    [][\A t \in Tasks :
          (/\ ItemStep(t)
           /\ \/ emails' # emails
              \/ task'[t].max_uid > task[t].max_uid) =>
                 client = task[t].folder]_vars

\* the connection is lost and the engine still holds itself connected
LostUnnoticed == connected /\ client = "none"

\* a sync_folder call of the periodic task has returned without error
PeriodicCallSucceeded ==
    /\ task["periodic"].pc = "ret"
    /\ task["periodic"].res.error = ""

\* C34: when the connection is lost after a successful connect and the
\* server answers again from then on, a later round of periodic_sync
\* reconnects and completes a sync_folder call without error.
ReconnectsAfterLoss == LostUnnoticed ~> PeriodicCallSucceeded

\* C35: under every interleaving of two process_unclassified calls, and of
\* the calls with the storing of messages, every stored message has at most
\* one classification row, its links are recorded at most once and its sender
\* is counted at most once; a message that is not stored has no
\* classification row.
ClassifiedAtMostOnce ==
    \A m \in ProcMsgs :
        /\ tables.cls[m] <= 1
        /\ tables.links[m] <= 1
        /\ tables.sender[m] <= 1
        /\ stored[m] = "absent" => tables.cls[m] = 0

\* The messages that carry a from-address are those of one sender.  Its
\* profile's total_emails is 1 from the update that created the row plus 1
\* from every later update, emails_opened likewise over the read messages.
SenderTotalEmails ==
    SumOver([m \in ProcMsgs |-> IF HasFrom(m) THEN tables.sender[m] ELSE 0], ProcMsgs)
SenderEmailsOpened ==
    SumOver([m \in ProcMsgs |-> IF HasFrom(m) /\ IsRead(m) THEN tables.sender[m] ELSE 0],
            ProcMsgs)
ProcessedOfSender == {m \in ProcMsgs : HasFrom(m) /\ tables.cls[m] > 0}

\* C36: after any sequence of process_unclassified and process_email_by_id
\* calls, total_emails of a sender is the number of distinct stored messages
\* of the sender that have been processed, and emails_opened the number of
\* the read ones among them.
SenderCountsDistinctMessages ==
    batch.pc = "idle" =>
        /\ SenderTotalEmails = Cardinality(ProcessedOfSender)
        /\ SenderEmailsOpened = Cardinality({m \in ProcessedOfSender : IsRead(m)})

\* C37: in every reachable state each link whose status is queued was part
\* of a URL batch that the extraction gateway accepted.
QueuedOnlyAfterDispatch ==
    \A i \in 1..Len(links) :
        links[i].pipeline_status = "queued" => i \in gateway.accepted

\* link i is pending, at or above min_rel, and its URL has a content type
\* with a configured extractor
AwaitsExtraction(i, min_rel) ==
    /\ i <= Len(links)
    /\ links[i].pipeline_status = "pending"
    /\ links[i].relevance_score >= min_rel
    /\ Extractor(links[i].link_type) # "none"

RoundFailed ==
    \/ task["periodic"].pc = "pause"
    \/ task["periodic"].pc = "ret" /\ task["periodic"].res.error # ""
    \/ task["periodic"].pc = "idle" /\ ~connected

\* the engine after the shutdown
EngineDown ==
    /\ task["periodic"].pc = "ended"
    /\ ~connected
    /\ client = "none"
    /\ ~syncing

\* C39: the periodic task ends only by the cancellation of the shutdown and
\* does end by it; after a failed round it attempts a later round unless the
\* shutdown has begun; once the shutdown has completed the engine is
\* disconnected and no sync_folder call starts.
PeriodicSyncKeepsRunning ==
    /\ [][task'["periodic"].pc = "ended" /\ task["periodic"].pc # "ended"
            => lifespan = "up" /\ lifespan' = "stopping"]_vars
    /\ [][lifespan = "up" /\ lifespan' # "up" => task'["periodic"].pc = "ended"]_vars
    /\ (RoundFailed /\ lifespan = "up") ~> (task["periodic"].pc = "awake" \/ lifespan # "up")
    /\ [](lifespan = "down" => EngineDown)
    /\ [][lifespan = "down" => task' = task]_vars

\* C39, the case: the handler of a failed round is pausing while the
\* application is up.
RoundFailedTaskAlive ==
    /\ lifespan = "up"
    /\ task["periodic"].pc = "pause"
    /\ sync_state # [f \in Folders |-> NoRow]

\* C40: the sender's first_seen is no later, and its last_seen no earlier,
\* than the sent date of every processed message from the address, and
\* first_seen is no later than last_seen, whatever the order of processing.
SeenCoversProcessed ==
    /\ sender_seen.first_seen <= sender_seen.last_seen
    /\ \A m \in ProcessedOfSender :
          /\ sender_seen.first_seen <= DateSent(m)
          /\ sender_seen.last_seen >= DateSent(m)

====
